---- MODULE Spec2Model ----
(***************************************************************************)
(* Verification model of terraform-wrapper: the layered parallel executor  *)
(* (internal/executor), the stack graph (internal/graph), the plan cache   *)
(* (internal/cache) and the S3 orchestration lock (internal/lock).         *)
(***************************************************************************)
EXTENDS Integers, Sequences, FiniteSets, TLC

(* ------------------------------ bounds --------------------------------- *)
\* number of stacks in a graph given to RunAll
NStacks == 3
\* largest value of Options.Parallelism the caller passes (0 = not set)
MaxParallelism == 2
\* number of PlanStack calls after one plan-all
MaxPlanCalls == 1
\* number of nodes of a graph given to TopoSort
NNodes == 3
\* number of lock instances (workers) contending for one environment
NWorkers == 2
\* last tick of the clock of the lock model
MaxTime == 2
\* OrchestrationLock.TTL in clock ticks
LockTTL == 1
\* number of Acquire calls one worker makes
MaxAcquires == 2
\* PlanStack calls and edits in a behaviour of SpecCache
MaxCacheCalls == 3
MaxEdits == 2
\* files in a stack directory and bytes in a file
NFiles == 4
MaxFileLen == 2
\* the newest terraform release
MaxVersion == 2
\* processes writing the version lock file, and write calls per document
NWriters == 2
DocChunks == 2
\* lock file round trip: characters per stack path, entries per list
MaxPathLen == 3
MaxDetected == 2
\* superplan: segments per address, rewrites of one pulled state
MaxParts == 4
MaxRewrites == 2
\* elements of an ignore_changes tuple
MaxItems == 2
\* summaries built from one plan
MaxSummaries == 2

(* ------------------------- program constants --------------------------- *)
DefaultParallelism == 4
LockedExitCode == 65

Stacks == 1..NStacks

(* ------------------------------ state ---------------------------------- *)
VARIABLES
    \* --- executor (RunAll) ---
    graph,            \* graph.Graph: path -> [Dependencies, SkipDestroy]
    op,               \* Operation of the run
    options,          \* Options as the caller passes them: Parallelism, UseCache, ForceStacks
    rpc,              \* position of RunAll: "new", "loop", "layer", "done"
    processed,        \* RunAll.processed
    indegree,         \* executor.indegree
    waitingNotified,  \* executor.waitingNotified
    layer,            \* the layer handed to runLayer
    layerIndex,       \* RunAll.layerIndex
    wpc,              \* position of the worker goroutine of each stack
    sem,              \* number of tokens in runLayer's sem channel
    layerCancelled,   \* runLayer's cancel() was called
    callerDone,       \* the caller's context (e.ctx) is cancelled
    firstErr,         \* runLayer.firstErr: {} (nil) or {the stack whose error it is}
    layerSummary,     \* runLayer.summary
    summary,          \* RunAll.summary
    retErr,           \* error returned by RunAll: "none", "nil", "worker", "cycle"
    progress,         \* output.Manager.states
    calls,            \* Runner methods invoked, per stack: sequence of method names
    okDone,           \* stacks whose operation returned without error
    planHashes,       \* executor.planHashes
    diskHash,         \* content of plan.hash per stack (Nil: no file)
    diskPlan,         \* content of plan.tfplan per stack (Nil: no file)
    content,          \* byte stream of the fingerprinted files of each stack
    \* --- PlanStack (plan of a single stack) ---
    planCalls,        \* number of PlanStack calls made
    single,           \* stack, status and error of the last PlanStack call
    planned,          \* per stack, the content[s] of the last PlanStack call in this
                      \* behaviour that returned executed without error (Nil: none)
    \* --- cache.ComputeHash over the files of a stack ---
    fs,               \* content of each fingerprinted file: path -> byte sequence
    flist,            \* the file list handed to ComputeHash
    edits,            \* number of edits made to the files
    \* --- versioning.ResolveTerraformBinary ---
    required,         \* per stack, the required_version constraint found (Nil: none)
    systemVersion,    \* version of the terraform binary on PATH (Nil: none)
    lockFile,         \* content of the version lock file (Nil: no file)
    cacheVersions,    \* versions with a binary under ~/.terraform-wrapper/versions
    resolved,         \* options and outcome of the last ResolveTerraformBinary call
    resolves,         \* number of ResolveTerraformBinary calls made
    \* --- versioning.WriteLockFile, step by step ---
    entries,          \* directory entries: the inode at path and at path.tmp ({}: none)
    inodes,           \* content of each inode: a sequence of chunks
    wrpc,             \* per writer, its position in WriteLockFile
    wfd,              \* per writer, the inode its open file descriptor refers to
    woff,             \* per writer, the chunks written through the descriptor
    wret,             \* per writer, what WriteLockFile returned
    seen,             \* contents a reader of path has read
    \* --- versioning.WriteLockFile followed by ReadLockFile ---
    tripDoc,          \* the LockFile value handed to WriteLockFile
    tripFile,         \* the JSON document in the lock file ({}: no file)
    tripRead,         \* what ReadLockFile returned ({}: nothing yet)
    tripErr,          \* WriteLockFile returned an error
    \* --- superplan: prefixResources and prefixOutputs ---
    spPrefix,         \* the stack's sanitized name
    spPulled,         \* the state as terraform state pull returned it
    spState,          \* the state map being rewritten ({}: none)
    spRewrites,       \* how often it was rewritten
    \* --- superplan: cleanupTerraformBlocks on one block ---
    lcBlock,          \* the block as parsed from the stack's file
    lcOut,            \* the block as written to super.tf ({}: not yet)
    \* --- superplan: Run ---
    suStep,           \* the step Run is at (0: not called)
    suKeep,           \* Options.KeepPlanArtifacts
    suFiles,          \* what exists under the output directory
    suRet,            \* "none", or what Run returned: "nil" or "error"
    \* --- bootstrap: Run ---
    bsStep,           \* the step Run is at (0: not called)
    bsOpts,           \* which of Options.AccountID and TerraformPath are set
    bsFiles,          \* what exists of the bootstrap stack
    bsAtCall,         \* what existed when Run was called
    bsDisabled,       \* Run has renamed backend.tf to backend.tf.disabled
    bsRestored,       \* Run's local restored
    bsRet,            \* "none", or what Run returned: "nil" or "error"
    \* --- superplan: buildSuperplanSummary on one resource change ---
    smStacks,         \* the stack directories of the graph
    smMap,            \* prefixToStack
    smOrigin,         \* the stack the changed resource is declared in
    smAddress,        \* the address of the resource change in the plan
    smAttr,           \* the stacks the change was attributed to, one per summary
    \* --- lock: the store's answer to DeleteObject ---
    storeDenies,      \* DeleteObject returns an error and leaves the object
    \* --- graph.TopoSort ---
    tg,               \* the Graph given to TopoSort: node -> Dependencies
    tpc,              \* "range" (in the loop over the map) or "done"
    ranged,           \* keys the range loop has yielded so far
    visited,          \* TopoSort.visited
    order,            \* TopoSort.order; the returned slice once tpc = "done"
    terr,             \* returned error: {} (nil) or {the node the error names}
    \* --- lock.OrchestrationLock: one instance per worker, one S3 key ---
    obj,              \* the lock object in the store: {} or {[owner, ts]}
    now,              \* the clock
    lpc,              \* position of each worker inside Acquire, or "idle"
    locked,           \* OrchestrationLock.locked of each instance
    lwait,            \* wait argument of the worker's current or last Acquire
    lforce,           \* force argument of the worker's current or last Acquire
    stamp,            \* lockData["timestamp"] of the worker's current or last Acquire
    meta,             \* metadata the worker's last HeadObject returned
    lres,             \* what the worker's last Acquire returned
    lctx,             \* the worker's context is cancelled
    acquires,         \* number of Acquire calls the worker has made
    deleted,          \* some DeleteObject was issued (by Release or on a stale lock)
    relRes,           \* the last Release call, if no Acquire was called since: {} or
                      \* {[by, did]} with did "noop" (no store request) or "deleted"
    lastRelease,      \* {w} when the last store request was the DeleteObject of w's Release
    evicted           \* the worker's running Acquire has deleted a stale lock

runVars == <<graph, op, options, rpc, processed, indegree, waitingNotified, layer,
             layerIndex, wpc, sem, layerCancelled, callerDone, firstErr,
             layerSummary, summary, retErr, progress, calls, okDone, planHashes,
             diskHash, diskPlan, content>>

planVars == <<planCalls, single, planned>>

hashVars == <<fs, flist, edits>>

writeVars == <<entries, inodes, wrpc, wfd, woff, wret, seen>>

versionVars ==
    <<required, systemVersion, lockFile, cacheVersions, resolved, resolves, writeVars>>

topoVars == <<tg, tpc, ranged, visited, order, terr>>

lockVars == <<obj, now, lpc, locked, lwait, lforce, stamp, meta, lres, lctx, acquires,
              deleted, relRes, lastRelease, evicted>>

\* the state of the subsystems other than the executor and PlanStack
tripVars == <<tripDoc, tripFile, tripRead, tripErr>>

\* the state of the packages added after the executor, graph, lock, cache
\* and version resolver
prefixVars == <<spPrefix, spPulled, spState, spRewrites>>

lifecycleVars == <<lcBlock, lcOut>>

superplanVars == <<suStep, suKeep, suFiles, suRet>>

bootstrapVars == <<bsStep, bsOpts, bsFiles, bsAtCall, bsDisabled, bsRestored, bsRet>>

summaryVars == <<smStacks, smMap, smOrigin, smAddress, smAttr>>

faultVars == <<storeDenies>>

restVars == <<tripVars, prefixVars, lifecycleVars, superplanVars, bootstrapVars,
             summaryVars, faultVars>>

\* what the steps of one of these packages leave alone
besidesTrip ==
    <<runVars, planVars, topoVars, lockVars, hashVars, versionVars,
      prefixVars, lifecycleVars, superplanVars, bootstrapVars, summaryVars,
      faultVars>>

besidesPrefix ==
    <<runVars, planVars, topoVars, lockVars, hashVars, versionVars,
      tripVars, lifecycleVars, superplanVars, bootstrapVars, summaryVars,
      faultVars>>

besidesLifecycle ==
    <<runVars, planVars, topoVars, lockVars, hashVars, versionVars,
      tripVars, prefixVars, superplanVars, bootstrapVars, summaryVars,
      faultVars>>

besidesSuperplan ==
    <<runVars, planVars, topoVars, lockVars, hashVars, versionVars,
      tripVars, prefixVars, lifecycleVars, bootstrapVars, summaryVars,
      faultVars>>

besidesBootstrap ==
    <<runVars, planVars, topoVars, lockVars, hashVars, versionVars,
      tripVars, prefixVars, lifecycleVars, superplanVars, summaryVars,
      faultVars>>

besidesSummary ==
    <<runVars, planVars, topoVars, lockVars, hashVars, versionVars,
      tripVars, prefixVars, lifecycleVars, superplanVars, bootstrapVars,
      faultVars>>

besidesFault ==
    <<runVars, planVars, topoVars, lockVars, hashVars, versionVars,
      tripVars, prefixVars, lifecycleVars, superplanVars, bootstrapVars,
      summaryVars>>

outsideRun == <<topoVars, lockVars, hashVars, versionVars, restVars>>

vars == <<runVars, planVars, topoVars, lockVars, hashVars, versionVars, restVars>>

\* no lock document is written and read back
TripIdle == tripDoc = <<>> /\ tripFile = {} /\ tripRead = {} /\ tripErr = FALSE

\* no state is pulled and rewritten
PrefixIdle == spPrefix = <<>> /\ spPulled = <<>> /\ spState = {} /\ spRewrites = 0

\* no block is cleaned up
LifecycleIdle == lcBlock = <<>> /\ lcOut = {}

\* superplan Run is not called
SuperplanIdle == suStep = 0 /\ suKeep = FALSE /\ suFiles = {} /\ suRet = "none"

\* bootstrap Run is not called
BootstrapIdle ==
    /\ bsStep = 0 /\ bsOpts = <<>> /\ bsFiles = {} /\ bsAtCall = {} /\ bsRet = "none"
    /\ bsDisabled = FALSE /\ bsRestored = FALSE

\* no summary is built
SummaryIdle ==
    /\ smStacks = {} /\ smMap = <<>> /\ smOrigin = <<>> /\ smAddress = <<>>
    /\ smAttr = {}

\* the store carries out every DeleteObject
FaultIdle == storeDenies = FALSE

RestIdle ==
    /\ TripIdle /\ PrefixIdle /\ LifecycleIdle /\ SuperplanIdle /\ BootstrapIdle
    /\ SummaryIdle
    /\ FaultIdle

\* no WriteLockFile call is followed step by step
WriteIdle ==
    /\ entries = <<>> /\ inodes = <<>> /\ wrpc = <<>> /\ wfd = <<>>
    /\ woff = <<>> /\ wret = <<>> /\ seen = {}

\* no version resolution is made
VersionIdle ==
    /\ required = <<>> /\ systemVersion = <<>> /\ lockFile = <<>>
    /\ cacheVersions = {} /\ resolved = <<>> /\ resolves = 0
    /\ WriteIdle

\* ComputeHash is not under study
HashIdle == fs = <<>> /\ flist = <<>> /\ edits = 0

\* no lock instance exists
LockIdle ==
    /\ obj = {} /\ now = 0 /\ lpc = <<>> /\ locked = <<>> /\ lwait = <<>>
    /\ lforce = <<>> /\ stamp = <<>> /\ meta = <<>> /\ lres = <<>> /\ lctx = <<>>
    /\ acquires = <<>> /\ deleted = FALSE /\ relRes = {} /\ lastRelease = {}
    /\ evicted = <<>>

Nil == <<"nil">>

(* --------------------------- pure helpers ------------------------------ *)
RECURSIVE SortedSeq(_)
\* the elements of a finite set of integers in ascending order
SortedSeq(S) ==
    IF S = {} THEN <<>>
    ELSE LET m == CHOOSE x \in S : \A y \in S : x <= y
         IN <<m>> \o SortedSeq(S \ {m})

SeqToSet(s) == {s[i] : i \in 1..Len(s)}

\* crypto/sha256 over a byte stream: injective on the stream
Sha256(stream) == <<"sha256", stream>>

\* cache.ComputeHash over the stream of a stack's fingerprinted files
ComputeHash(stream) == Sha256(stream)

EmptySummary == [Executed |-> 0, Cached |-> 0, Skipped |-> 0, Failed |-> {}]

\* Merge that forgets the failed stacks of other
MergeDropsFailed(s, other) ==
    [Executed |-> s.Executed + other.Executed,
     Cached   |-> s.Cached + other.Cached,
     Skipped  |-> s.Skipped + other.Skipped,
     Failed   |-> s.Failed]

\* Summary.Merge
Merge(s, other) ==
    [Executed |-> s.Executed + other.Executed,
     Cached   |-> s.Cached + other.Cached,
     Skipped  |-> s.Skipped + other.Skipped,
     Failed   |-> s.Failed \cup other.Failed]

\* Options.Defaults (Parallelism)
Defaults(par) == IF par <= 0 THEN DefaultParallelism ELSE par

\* Options.IsForced
IsForced(rel) == rel \in options.ForceStacks

Dependencies(s) == graph[s].Dependencies

(* ------------------------ graph.TopoSort ------------------------------- *)
Nodes == 1..NNodes

\* the elements of a set of nodes as a Dependencies slice, ascending or descending
DepSlice(S, descending) ==
    LET asc == SortedSeq(S)
    IN IF descending THEN [i \in 1..Len(asc) |-> asc[Len(asc) + 1 - i]] ELSE asc

\* the visit closure after the dependencies of node were visited without error
finishNodePrepend(node, st) ==
    [st EXCEPT !.tempMark = @ \ {node}, !.visited = @ \cup {node},
               !.order = <<node>> \o @]
finishNode(node, st) ==
    [st EXCEPT !.tempMark = @ \ {node}, !.visited = @ \cup {node},
               !.order = Append(@, node)]

RECURSIVE visit(_, _), visitDeps(_, _, _)
\* the visit closure of TopoSort; st holds visited, tempMark, order and err
visit(node, st) ==
    IF node \in st.tempMark THEN [st EXCEPT !.err = {node}]
    ELSE IF node \in st.visited THEN st
    ELSE LET after == visitDeps(tg[node], 1, [st EXCEPT !.tempMark = @ \cup {node}])
         IN IF after.err # {} THEN after ELSE finishNode(node, after)

\* the loop over stack.Dependencies inside visit, from index i
visitDeps(deps, i, st) ==
    IF i > Len(deps) THEN st
    ELSE LET after == visit(deps[i], st)
         IN IF after.err # {} THEN after ELSE visitDeps(deps, i + 1, after)

TopoIdle ==
    /\ tg = <<>>
    /\ tpc = "idle"
    /\ ranged = {}
    /\ visited = {}
    /\ order = <<>>
    /\ terr = {}

\* one iteration of `for node := range g`: the map yields its keys in any order
TopoRange(node) ==
    /\ tpc = "range"
    /\ node \in Nodes \ ranged
    /\ ranged' = ranged \cup {node}
    /\ LET st == visit(node, [visited |-> visited, tempMark |-> {}, order |-> order,
                             err |-> {}])
       IN IF st.err # {}
          THEN /\ terr' = st.err
               /\ order' = <<>>
               /\ tpc' = "done"
               /\ UNCHANGED visited
          ELSE /\ visited' = st.visited
               /\ order' = st.order
               /\ UNCHANGED <<terr, tpc>>
    /\ UNCHANGED <<tg, runVars, planVars, lockVars, hashVars, versionVars, restVars>>

\* the range loop is exhausted: return order, nil
TopoReturn ==
    /\ tpc = "range"
    /\ ranged = Nodes
    /\ tpc' = "done"
    /\ UNCHANGED <<tg, ranged, visited, order, terr, runVars, planVars, lockVars,
                   hashVars, versionVars, restVars>>

RunIdle ==
    /\ graph = <<>> /\ op = "none" /\ options = <<>> /\ rpc = "idle"
    /\ processed = {} /\ indegree = <<>> /\ waitingNotified = {} /\ layer = {}
    /\ layerIndex = 0 /\ wpc = <<>> /\ sem = 0 /\ layerCancelled = FALSE
    /\ callerDone = FALSE /\ firstErr = {} /\ layerSummary = <<>> /\ summary = <<>>
    /\ retErr = "none" /\ progress = <<>> /\ calls = <<>> /\ okDone = {}
    /\ planHashes = <<>> /\ diskHash = <<>> /\ diskPlan = <<>> /\ content = <<>>
    /\ planCalls = 0 /\ single = <<>> /\ planned = <<>>

\* every graph over Nodes, self-dependencies and cycles included
InitTopo ==
    /\ \E deps \in [Nodes -> SUBSET Nodes], descending \in BOOLEAN :
          tg = [n \in Nodes |-> DepSlice(deps[n], descending)]
    /\ tpc = "range"
    /\ ranged = {}
    /\ visited = {}
    /\ order = <<>>
    /\ terr = {}
    /\ RunIdle
    /\ LockIdle
    /\ HashIdle
    /\ VersionIdle
    /\ RestIdle

NextTopo ==
    \/ \E node \in Nodes : TopoRange(node)
    \/ TopoReturn

SpecTopo == InitTopo /\ [][NextTopo]_vars

(* ------------------------ lock.OrchestrationLock ----------------------- *)
Workers == 1..NWorkers

NoResult == [kind |-> "none", owner |-> {}, code |-> 0]
Acquired == [kind |-> "ok", owner |-> {}, code |-> 0]
\* "lock exists but cannot be inspected": HeadObject returned an error
HeadFailed == [kind |-> "headerr", owner |-> {}, code |-> 1]
\* ctx.Err()
CtxErr == [kind |-> "ctx", owner |-> {}, code |-> 1]

\* &LockedError{Owner: meta["owner"], ...} and its ExitCode()
lockedErrorSelf(w) ==
    [kind |-> "locked", owner |-> {w}, code |-> LockedExitCode]
lockedError(w) ==
    [kind |-> "locked", owner |-> {m.owner : m \in meta[w]}, code |-> LockedExitCode]

\* age > l.TTL for the metadata the worker read
isStale(w) == \E m \in meta[w] : now - m.ts > LockTTL

\* Acquire calls made so far by the workers in W
RECURSIVE AcquireCalls(_)
AcquireCalls(W) ==
    IF W = {} THEN 0
    ELSE LET w == CHOOSE x \in W : TRUE IN acquires[w] + AcquireCalls(W \ {w})

\* the locals of Acquire once it has returned
ReturnFrom(w) ==
    /\ lpc' = [lpc EXCEPT ![w] = "idle"]
    /\ stamp' = [stamp EXCEPT ![w] = 0]
    /\ meta' = [meta EXCEPT ![w] = {}]
    /\ evicted' = [evicted EXCEPT ![w] = FALSE]

\* Acquire is called with a live context (l.mu taken, lockData built with time.Now())
AcquireCall(w, wait, force) ==
    /\ lpc[w] = "idle"
    /\ AcquireCalls(Workers) < MaxAcquires
    /\ acquires' = [acquires EXCEPT ![w] = @ + 1]
    /\ lwait' = [lwait EXCEPT ![w] = wait]
    /\ lforce' = [lforce EXCEPT ![w] = force]
    /\ stamp' = [stamp EXCEPT ![w] = now]
    /\ lres' = [lres EXCEPT ![w] = NoResult]
    /\ lctx' = [lctx EXCEPT ![w] = FALSE]
    /\ lpc' = [lpc EXCEPT ![w] = "put"]
    /\ relRes' = {}
    /\ UNCHANGED <<obj, now, locked, meta, deleted, lastRelease, evicted>>
    /\ UNCHANGED <<runVars, planVars, topoVars, hashVars, versionVars, restVars>>

\* PutObject with If-None-Match: * ; success returns nil with l.locked = true
PutObject(w) ==
    /\ lpc[w] = "put"
    /\ IF obj = {}
       THEN /\ obj' = {[owner |-> w, ts |-> stamp[w]]}
            /\ locked' = [locked EXCEPT ![w] = TRUE]
            /\ lres' = [lres EXCEPT ![w] = Acquired]
            /\ ReturnFrom(w)
       ELSE /\ lpc' = [lpc EXCEPT ![w] = "head"]
            /\ UNCHANGED <<obj, locked, lres, stamp, meta, evicted>>
    /\ lastRelease' = {}
    /\ UNCHANGED <<now, lwait, lforce, lctx, acquires, deleted, relRes>>
    /\ UNCHANGED <<runVars, planVars, topoVars, hashVars, versionVars, restVars>>

\* HeadObject after PreconditionFailed; an error (no such key) ends Acquire
HeadObject(w) ==
    /\ lpc[w] = "head"
    /\ IF obj = {}
       THEN /\ lres' = [lres EXCEPT ![w] = HeadFailed]
            /\ ReturnFrom(w)
       ELSE /\ meta' = [meta EXCEPT ![w] = obj]
            /\ lpc' = [lpc EXCEPT ![w] = "age"]
            /\ UNCHANGED <<lres, stamp, evicted>>
    /\ lastRelease' = {}
    /\ UNCHANGED <<obj, now, locked, lwait, lforce, lctx, acquires, deleted, relRes>>
    /\ UNCHANGED <<runVars, planVars, topoVars, hashVars, versionVars, restVars>>

\* age := time.Since(createdAt) and the branch on it
CheckAge(w) ==
    /\ lpc[w] = "age"
    /\ IF isStale(w)
       THEN /\ lpc' = [lpc EXCEPT ![w] = "evict"]
            /\ UNCHANGED <<lres, stamp, meta, evicted>>
       ELSE IF lwait[w]
       THEN /\ lpc' = [lpc EXCEPT ![w] = "poll"]
            /\ UNCHANGED <<lres, stamp, meta, evicted>>
       ELSE /\ lres' = [lres EXCEPT ![w] = lockedError(w)]
            /\ ReturnFrom(w)
    /\ UNCHANGED <<obj, now, locked, lwait, lforce, lctx, acquires, deleted, relRes,
                   lastRelease>>
    /\ UNCHANGED <<runVars, planVars, topoVars, hashVars, versionVars, restVars>>

\* the stale branch without its DeleteObject
DeleteStaleKeepsObject(w) ==
    /\ lpc[w] = "evict"
    /\ lpc' = [lpc EXCEPT ![w] = IF ~lforce[w] /\ lwait[w] THEN "settle" ELSE "put"]
    /\ evicted' = [evicted EXCEPT ![w] = TRUE]
    /\ lastRelease' = {}
    /\ UNCHANGED <<obj, deleted, now, locked, lwait, lforce, stamp, meta, lres, lctx,
                   acquires, relRes>>
    /\ UNCHANGED <<runVars, planVars, topoVars, hashVars, versionVars, restVars>>

\* DeleteObject of a stale lock, its error ignored
DeleteStale(w) ==
    /\ lpc[w] = "evict"
    /\ obj' = {}
    /\ deleted' = TRUE
    /\ lpc' = [lpc EXCEPT ![w] = IF ~lforce[w] /\ lwait[w] THEN "settle" ELSE "put"]
    /\ evicted' = [evicted EXCEPT ![w] = TRUE]
    /\ lastRelease' = {}
    /\ UNCHANGED <<now, locked, lwait, lforce, stamp, meta, lres, lctx, acquires, relRes>>
    /\ UNCHANGED <<runVars, planVars, topoVars, hashVars, versionVars, restVars>>

\* select: time.After fired (100ms after an eviction, PollInterval otherwise)
TimerFired(w) ==
    /\ lpc[w] \in {"settle", "poll"}
    /\ lpc' = [lpc EXCEPT ![w] = "put"]
    /\ UNCHANGED <<obj, now, locked, lwait, lforce, stamp, meta, lres, lctx, acquires,
                   deleted, relRes, lastRelease, evicted>>
    /\ UNCHANGED <<runVars, planVars, topoVars, hashVars, versionVars, restVars>>

\* select: <-ctx.Done() ; Acquire returns ctx.Err()
ContextDone(w) ==
    /\ lpc[w] \in {"settle", "poll"}
    /\ lctx[w]
    /\ lres' = [lres EXCEPT ![w] = CtxErr]
    /\ ReturnFrom(w)
    /\ UNCHANGED <<obj, now, locked, lwait, lforce, lctx, acquires, deleted, relRes,
                   lastRelease>>
    /\ UNCHANGED <<runVars, planVars, topoVars, hashVars, versionVars, restVars>>

\* Release that clears l.locked without the DeleteObject
ReleaseKeepsObject(w) ==
    /\ lpc[w] = "idle"
    /\ IF ~locked[w]
       THEN /\ relRes' = {[by |-> w, did |-> "noop"]}
            /\ UNCHANGED <<locked, lastRelease>>
       ELSE /\ locked' = [locked EXCEPT ![w] = FALSE]
            /\ relRes' = {[by |-> w, did |-> "deleted"]}
            /\ lastRelease' = {w}
    /\ UNCHANGED <<obj, deleted, now, lpc, lwait, lforce, stamp, meta, lres, lctx,
                   acquires, evicted>>
    /\ UNCHANGED <<runVars, planVars, topoVars, hashVars, versionVars, restVars>>

\* Release without the !l.locked guard
ReleaseAlwaysDeletes(w) ==
    /\ lpc[w] = "idle"
    /\ obj' = {}
    /\ deleted' = TRUE
    /\ locked' = [locked EXCEPT ![w] = FALSE]
    /\ relRes' = {[by |-> w, did |-> "deleted"]}
    /\ lastRelease' = {w}
    /\ UNCHANGED <<now, lpc, lwait, lforce, stamp, meta, lres, lctx, acquires, evicted>>
    /\ UNCHANGED <<runVars, planVars, topoVars, hashVars, versionVars, restVars>>

\* Release: nil at once when !l.locked; otherwise DeleteObject, l.locked = false
Release(w) ==
    /\ lpc[w] = "idle"
    /\ IF ~locked[w]
       THEN /\ relRes' = {[by |-> w, did |-> "noop"]}
            /\ UNCHANGED <<obj, deleted, locked, lastRelease>>
       ELSE /\ obj' = {}
            /\ deleted' = TRUE
            /\ locked' = [locked EXCEPT ![w] = FALSE]
            /\ relRes' = {[by |-> w, did |-> "deleted"]}
            /\ lastRelease' = {w}
    /\ UNCHANGED <<now, lpc, lwait, lforce, stamp, meta, lres, lctx, acquires, evicted>>
    /\ UNCHANGED <<runVars, planVars, topoVars, hashVars, versionVars, restVars>>

\* the context of the worker's running Acquire is cancelled
CancelContext(w) ==
    /\ lpc[w] # "idle"
    /\ ~lctx[w]
    /\ lctx' = [lctx EXCEPT ![w] = TRUE]
    /\ UNCHANGED <<obj, now, lpc, locked, lwait, lforce, stamp, meta, lres, acquires,
                   deleted, relRes, lastRelease, evicted>>
    /\ UNCHANGED <<runVars, planVars, topoVars, hashVars, versionVars, restVars>>

\* time passes
Tick ==
    /\ now < MaxTime
    /\ now' = now + 1
    /\ UNCHANGED <<obj, lpc, locked, lwait, lforce, stamp, meta, lres, lctx, acquires,
                   deleted, relRes, lastRelease, evicted>>
    /\ UNCHANGED <<runVars, planVars, topoVars, hashVars, versionVars, restVars>>

\* no lock, or a lock another actor (owner 0) put at time 0
InitLock ==
    /\ obj \in {{}, {[owner |-> 0, ts |-> 0]}}
    /\ now = 0
    /\ lpc = [w \in Workers |-> "idle"]
    /\ locked = [w \in Workers |-> FALSE]
    /\ lwait = [w \in Workers |-> FALSE]
    /\ lforce = [w \in Workers |-> FALSE]
    /\ stamp = [w \in Workers |-> 0]
    /\ meta = [w \in Workers |-> {}]
    /\ lres = [w \in Workers |-> NoResult]
    /\ lctx = [w \in Workers |-> FALSE]
    /\ acquires = [w \in Workers |-> 0]
    /\ deleted = FALSE
    /\ relRes = {}
    /\ lastRelease = {}
    /\ evicted = [w \in Workers |-> FALSE]
    /\ RunIdle
    /\ TopoIdle
    /\ HashIdle
    /\ VersionIdle
    /\ RestIdle

NextLock ==
    \/ \E w \in Workers, wait \in BOOLEAN, force \in BOOLEAN :
          \* force is only read on the wait path
          (force => wait) /\ AcquireCall(w, wait, force)
    \/ \E w \in Workers : PutObject(w)
    \/ \E w \in Workers : HeadObject(w)
    \/ \E w \in Workers : CheckAge(w)
    \/ \E w \in Workers : DeleteStale(w)
    \/ \E w \in Workers : TimerFired(w)
    \/ \E w \in Workers : ContextDone(w)
    \/ \E w \in Workers : Release(w)
    \/ \E w \in Workers : CancelContext(w)
    \/ Tick

SpecLock == InitLock /\ [][NextLock]_vars

\* workers contending with wait=false for a lock nobody holds, nobody releasing
InitContend == InitLock /\ obj = {}

NextContend ==
    \/ \E w \in Workers : AcquireCall(w, FALSE, FALSE)
    \/ \E w \in Workers : PutObject(w)
    \/ \E w \in Workers : HeadObject(w)
    \/ \E w \in Workers : CheckAge(w)
    \/ \E w \in Workers : DeleteStale(w)
    \/ Tick

SpecContend == InitContend /\ [][NextContend]_vars

\* no worker is inside Acquire
NoAcquireRunning == \A w \in Workers : lpc[w] = "idle"

\* calls on the lock that do not overlap: each Acquire and Release runs to its return
\* before the next call begins; every combination of the Acquire flags
NextSerial ==
    \/ \E w \in Workers, wait \in BOOLEAN, force \in BOOLEAN :
          NoAcquireRunning /\ AcquireCall(w, wait, force)
    \/ \E w \in Workers : PutObject(w)
    \/ \E w \in Workers : HeadObject(w)
    \/ \E w \in Workers : CheckAge(w)
    \/ \E w \in Workers : DeleteStale(w)
    \/ \E w \in Workers : TimerFired(w)
    \/ \E w \in Workers : ContextDone(w)
    \/ \E w \in Workers : NoAcquireRunning /\ Release(w)
    \/ \E w \in Workers :
          \* the context is read only in the two selects
          lpc[w] \in {"settle", "poll"} /\ CancelContext(w)
    \/ Tick

SpecSerial == InitLock /\ [][NextSerial]_vars

(* ------------------------ executor: inputs ----------------------------- *)
Operations == {"init", "plan", "apply", "destroy"}

MkGraph(deps, skip) ==
    [s \in Stacks |-> [Dependencies |-> SortedSeq(deps[s]), SkipDestroy |-> skip[s]]]

\* dependency sets a stack is given: none, the stack before it, or every
\* earlier stack (independent stacks, chains, fan-in, fan-out and diamonds)
DepChoices(s) == {{}, {s - 1} \cap Stacks, 1..(s - 1)}

\* acyclic dependency relations: up to renaming, every DAG has its edges
\* pointing from a later stack to an earlier one
AcyclicDeps == {d \in [Stacks -> SUBSET Stacks] : \A s \in Stacks : d[s] \in DepChoices(s)}

\* dependency relations with a cycle between stacks 1 and 2
CyclicDeps == {d \in [Stacks -> SUBSET Stacks] :
                 /\ d[1] = {2} /\ d[2] = {1}
                 /\ \A s \in Stacks \ {1, 2} : d[s] \in {{}, {1}}}

\* skip_when_destroying flags: no stack, stack 1 only, every stack
SkipChoices == {[s \in Stacks |-> s \in K] : K \in {{}, {1}, Stacks}}

NoSkip == [s \in Stacks |-> FALSE]

\* the byte stream of the files of stack s that the fingerprint covers
ContentOf(s) == << <<"byte", s>> >>
\* a byte stream different from every ContentOf(s): the files as they were
\* before an edit
OldContent == << <<"byte", 0>> >>

RECURSIVE FinalHashOf(_, _, _)
\* the fingerprint a complete plan-all over graph g leaves in planHashes for s
FinalHashOf(g, s, fuel) ==
    LET deps == g[s].Dependencies
    IN Sha256(<<ComputeHash(ContentOf(s))>> \o
              [i \in 1..Len(deps) |->
                  IF fuel = 0 THEN Nil ELSE FinalHashOf(g, deps[i], fuel - 1)])

\* states of the cache directories before the run: empty, left by a complete
\* plan-all of the same inputs, left by PlanStack on the same inputs, left by
\* a plan of other inputs, fingerprint without plan file
DiskModes == {"cold", "warm", "single", "stale", "noplan"}

DiskHashFor(g, s, mode) ==
    CASE mode = "cold"   -> Nil
      [] mode = "warm"   -> FinalHashOf(g, s, NStacks)
      [] mode = "single" -> ComputeHash(ContentOf(s))
      [] mode = "stale"  -> Sha256(<<ComputeHash(OldContent)>>)
      [] mode = "noplan" -> FinalHashOf(g, s, NStacks)

DiskPlanFor(g, s, mode) ==
    CASE mode = "cold"   -> Nil
      [] mode = "warm"   -> FinalHashOf(g, s, NStacks)
      [] mode = "single" -> ComputeHash(ContentOf(s))
      [] mode = "stale"  -> Sha256(<<ComputeHash(OldContent)>>)
      [] mode = "noplan" -> Nil

(* ------------------------ executor: state after newExecutor ------------ *)
\* RunAll is called on a graph whose dependency relation is one of depsChoices
InitRunOn(depsChoices) ==
    /\ op \in Operations
    /\ \E deps \in depsChoices, skip \in SkipChoices :
          /\ (op # "destroy" => skip = NoSkip)
          /\ graph = MkGraph(deps, skip)
    /\ \E par \in 0..MaxParallelism, cache \in BOOLEAN, forced \in {{}, {1}} :
          /\ (~(op = "plan" /\ cache) => forced = {})
          /\ options = [Parallelism |-> par, UseCache |-> cache,
                        ForceStacks |-> forced]
    /\ \E mode \in DiskModes :
          /\ (op # "plan" => mode = "cold")
          /\ (~options.UseCache => mode \in {"cold", "warm"})
          /\ (graph[1].Dependencies # <<>> => mode = "cold")
          /\ diskHash = [s \in Stacks |-> DiskHashFor(graph, s, mode)]
          /\ diskPlan = [s \in Stacks |-> DiskPlanFor(graph, s, mode)]
    /\ content = [s \in Stacks |-> ContentOf(s)]
    /\ rpc = "loop"
    /\ processed = {}
    /\ indegree = [s \in Stacks |-> Len(graph[s].Dependencies)]
    /\ waitingNotified = {}
    /\ layer = {}
    /\ layerIndex = 1
    /\ wpc = [s \in Stacks |-> "none"]
    /\ sem = 0
    /\ layerCancelled = FALSE
    /\ callerDone = FALSE
    /\ firstErr = {}
    /\ layerSummary = EmptySummary
    /\ summary = EmptySummary
    /\ retErr = "none"
    /\ progress = [s \in Stacks |-> "pending"]
    /\ calls = [s \in Stacks |-> <<>>]
    /\ okDone = {}
    /\ planHashes = [s \in Stacks |-> Nil]
    /\ planCalls = 0
    /\ single = [stack |-> 0, status |-> "none", err |-> FALSE]
    /\ planned = [s \in Stacks |-> Nil]
    /\ TopoIdle
    /\ LockIdle
    /\ HashIdle
    /\ VersionIdle
    /\ RestIdle

\* RunAll is called on a graph that graph.Build can return
InitRun == InitRunOn(AcyclicDeps \cup CyclicDeps)

\* paths that are not keys of the graph
NotKeys == {0}

\* dependency relations in which stack 1 depends on a path that is not a key
\* of the graph, and the other stacks on nothing, on stack 1 or on the stack
\* before them
DanglingDeps ==
    {d \in [Stacks -> SUBSET (Stacks \cup NotKeys)] :
        /\ d[1] = NotKeys
        /\ \A s \in Stacks \ {1} : d[s] \in {{}, {1}, {s - 1}}}

\* RunAll is called on any graph value: one that graph.Build can return, or
\* one with a dependency that is not a key
InitAnyGraph == InitRunOn(AcyclicDeps \cup CyclicDeps \cup DanglingDeps)

(* ------------------------ executor: scheduling ------------------------- *)
\* readyNodes without the indegree test
readyNodesUnprocessed == {p \in DOMAIN indegree : p \notin processed}

\* executor.readyNodes
readyNodes == {p \in DOMAIN indegree : p \notin processed /\ indegree[p] = 0}

\* notifyWaiting without the waitingNotified test
notifyWaitingRepeated ==
    {p \in DOMAIN indegree :
        /\ p \notin processed
        /\ indegree[p] # 0
        /\ \E d \in SeqToSet(Dependencies(p)) : d \notin processed}

\* executor.notifyWaiting: the stacks that receive a waiting event now
notifyWaiting ==
    {p \in DOMAIN indegree :
        /\ p \notin processed
        /\ indegree[p] # 0
        /\ p \notin waitingNotified
        /\ \E d \in SeqToSet(Dependencies(p)) : d \notin processed}

\* RunAll, loop condition false: every stack is processed
RunAllReturn ==
    /\ rpc = "loop"
    /\ Cardinality(processed) >= Cardinality(DOMAIN graph)
    /\ rpc' = "done"
    /\ retErr' = "nil"
    /\ UNCHANGED <<graph, op, options, processed, indegree, waitingNotified, layer,
                   layerIndex, wpc, sem, layerCancelled, callerDone, firstErr,
                   layerSummary, summary, progress, calls, okDone, planHashes, diskHash,
                   diskPlan, content, planVars, outsideRun>>

\* RunAll, loop head with an empty layer: "dependency cycle detected"
RunAllCycle ==
    /\ rpc = "loop"
    /\ Cardinality(processed) < Cardinality(DOMAIN graph)
    /\ readyNodes = {}
    /\ waitingNotified' = waitingNotified \cup notifyWaiting
    /\ progress' = [s \in Stacks |-> IF s \in notifyWaiting THEN "waiting" ELSE progress[s]]
    /\ rpc' = "done"
    /\ retErr' = "cycle"
    /\ UNCHANGED <<graph, op, options, processed, indegree, layer,
                   layerIndex, wpc, sem, layerCancelled, callerDone, firstErr,
                   layerSummary, summary, calls, okDone, planHashes, diskHash, diskPlan,
                   content, planVars, outsideRun>>

\* RunAll loop head and the start of runLayer: one goroutine per stack of the layer
RunLayerStart ==
    /\ rpc = "loop"
    /\ Cardinality(processed) < Cardinality(DOMAIN graph)
    /\ readyNodes # {}
    /\ waitingNotified' = waitingNotified \cup notifyWaiting
    /\ progress' = [s \in Stacks |-> IF s \in notifyWaiting THEN "waiting" ELSE progress[s]]
    /\ layer' = readyNodes
    /\ wpc' = [s \in Stacks |-> IF s \in readyNodes THEN "select" ELSE wpc[s]]
    /\ sem' = 0
    /\ layerCancelled' = FALSE
    /\ firstErr' = {}
    /\ layerSummary' = EmptySummary
    /\ rpc' = "layer"
    /\ UNCHANGED <<graph, op, options, processed, indegree, layerIndex, callerDone,
                   summary, retErr, calls, okDone,
                   planHashes, diskHash, diskPlan, content, planVars, outsideRun>>

\* the layer's context is done: cancel() was called or the caller's context is done
CtxDone == layerCancelled \/ callerDone

\* `sem <- struct{}{}` can proceed: the channel buffer has room
SemHasRoomUnbounded == TRUE
SemHasRoom == sem < Defaults(options.Parallelism)

\* worker goroutine: select takes the semaphore; progress.Start
WorkerAcquire(s) ==
    /\ rpc = "layer"
    /\ wpc[s] = "select"
    /\ SemHasRoom
    /\ sem' = sem + 1
    /\ wpc' = [wpc EXCEPT ![s] = "running"]
    /\ progress' = [progress EXCEPT ![s] = "running"]
    /\ UNCHANGED <<graph, op, options, rpc, processed, indegree, waitingNotified, layer,
                   layerIndex, layerCancelled, callerDone, firstErr,
                   layerSummary, summary, retErr, calls, okDone,
                   planHashes, diskHash, diskPlan, content, planVars, outsideRun>>

\* worker goroutine: select takes <-ctx.Done() and returns
WorkerCtxDone(s) ==
    /\ rpc = "layer"
    /\ wpc[s] = "select"
    /\ CtxDone
    /\ wpc' = [wpc EXCEPT ![s] = "exited"]
    /\ UNCHANGED <<graph, op, options, rpc, processed, indegree, waitingNotified, layer,
                   layerIndex, sem, layerCancelled, callerDone, firstErr,
                   layerSummary, summary, retErr, progress, calls, okDone, planHashes,
                   diskHash, diskPlan, content, planVars, outsideRun>>

(* ------------------------ executor: one stack -------------------------- *)
\* what the Runner and the file system do during one stack operation:
\* "ok", "fail" (the Runner method returns an error), "savefail" (plan only:
\* the Runner succeeds and cache.SaveHash returns an error)
Outcomes == {"ok", "fail", "savefail"}

IsNotNil(h) == h # Nil

\* executor.getPlanHash for each dependency, nil entries left out
depHashes(s) ==
    LET deps == Dependencies(s)
    IN SelectSeq([i \in 1..Len(deps) |->
                    IF deps[i] \in DOMAIN planHashes THEN planHashes[deps[i]] ELSE Nil],
                 IsNotNil)

\* planStack: hashBytes
hashBytes(s) == Sha256(<<ComputeHash(content[s])>> \o depHashes(s))

\* planStack: the cache-hit condition
planStackCachedNoPlanFile(s) ==
    /\ options.UseCache
    /\ ~IsForced(s)
    /\ diskHash[s] # Nil
    /\ diskHash[s] = hashBytes(s)
planStackCached(s) ==
    /\ options.UseCache
    /\ ~IsForced(s)
    /\ diskHash[s] # Nil
    /\ diskHash[s] = hashBytes(s)
    /\ diskPlan[s] # Nil

Result(status, err, call, dh, dp, ph) ==
    [status |-> status, err |-> err, call |-> call, diskHash |-> dh, diskPlan |-> dp,
     planHash |-> ph]

\* executor.planStack
planStack(s, out) ==
    IF planStackCached(s)
    THEN Result("cached", FALSE, <<>>, diskHash[s], diskPlan[s], diskHash[s])
    ELSE CASE out = "fail" ->
                Result("executed", TRUE, <<"PlanWithOutput">>, diskHash[s], diskPlan[s],
                       planHashes[s])
           [] out = "savefail" ->
                Result("executed", TRUE, <<"PlanWithOutput">>, diskHash[s], hashBytes(s),
                       planHashes[s])
           [] OTHER ->
                Result("executed", FALSE, <<"PlanWithOutput">>, hashBytes(s), hashBytes(s),
                       hashBytes(s))

\* a Runner method that takes only the stack
runnerCall(s, method, out) ==
    Result("executed", out = "fail", <<method>>, diskHash[s], diskPlan[s], planHashes[s])

\* executor.executeStack
executeStack(s, out) ==
    CASE op = "plan"    -> planStack(s, out)
      [] op = "apply"   -> runnerCall(s, "Apply", out)
      [] op = "destroy" -> runnerCall(s, "Destroy", out)
      [] op = "init"    -> runnerCall(s, "InitOnly", out)

\* progress state recorded for a finished stack
finalState(r) ==
    IF r.err THEN "failed"
    ELSE IF r.status \in {"cached", "skipped"} THEN "skipped" ELSE "succeeded"

\* runLayer's summary after the worker of s recorded result r
recordSummary(sum, s, r) ==
    IF r.err THEN [sum EXCEPT !.Failed = @ \cup {s}]
    ELSE CASE r.status = "cached"  -> [sum EXCEPT !.Cached = @ + 1]
           [] r.status = "skipped" -> [sum EXCEPT !.Skipped = @ + 1]
           [] OTHER                -> [sum EXCEPT !.Executed = @ + 1]

\* worker goroutine after progress.Start: executeStack, the result recorded
\* under mu (the first error calls cancel()), then the deferred `<-sem` and
\* wg.Done
WorkerExecute(s) ==
    /\ rpc = "layer"
    /\ wpc[s] = "running"
    /\ \E out \in Outcomes :
         LET r == executeStack(s, out)
         IN /\ calls' = [calls EXCEPT ![s] = @ \o r.call]
            /\ diskHash' = [diskHash EXCEPT ![s] = r.diskHash]
            /\ diskPlan' = [diskPlan EXCEPT ![s] = r.diskPlan]
            /\ planHashes' = [planHashes EXCEPT ![s] = r.planHash]
            /\ progress' = [progress EXCEPT ![s] = finalState(r)]
            /\ layerSummary' = recordSummary(layerSummary, s, r)
            /\ okDone' = IF r.err THEN okDone ELSE okDone \cup {s}
            /\ firstErr' = IF r.err /\ firstErr = {} THEN {s} ELSE firstErr
            /\ layerCancelled' = (layerCancelled \/ r.err)
    /\ sem' = sem - 1
    /\ wpc' = [wpc EXCEPT ![s] = "exited"]
    /\ UNCHANGED <<graph, op, options, rpc, processed, indegree, waitingNotified, layer,
                   layerIndex, callerDone, summary, retErr, content, planVars, outsideRun>>

\* wg.Wait returned
layerFinished == \A s \in layer : wpc[s] = "exited"

\* runLayer returns firstErr # nil: RunAll merges the summary and returns the error
LayerFailed ==
    /\ rpc = "layer"
    /\ layerFinished
    /\ firstErr # {}
    /\ summary' = Merge(summary, layerSummary)
    /\ rpc' = "done"
    /\ retErr' = "worker"
    /\ UNCHANGED <<graph, op, options, processed, indegree, waitingNotified, layer,
                   layerIndex, wpc, sem, layerCancelled, callerDone, firstErr,
                   layerSummary, progress, calls, okDone, planHashes, diskHash, diskPlan,
                   content, planVars, outsideRun>>

\* runLayer returns nil: the layer is marked processed and indegrees drop
LayerProcessed ==
    /\ rpc = "layer"
    /\ layerFinished
    /\ firstErr = {}
    /\ summary' = Merge(summary, layerSummary)
    /\ processed' = processed \cup layer
    /\ indegree' = [p \in DOMAIN indegree |->
                      indegree[p] - Cardinality({i \in 1..Len(Dependencies(p)) :
                                                    Dependencies(p)[i] \in layer})]
    /\ layerIndex' = layerIndex + 1
    /\ rpc' = "loop"
    /\ UNCHANGED <<graph, op, options, waitingNotified, layer,
                   wpc, sem, layerCancelled, callerDone, firstErr,
                   layerSummary, retErr, progress, calls, okDone, planHashes, diskHash,
                   diskPlan, content, planVars, outsideRun>>

\* the caller cancels the context it gave to RunAll
CancelCaller ==
    /\ rpc # "done"
    /\ ~callerDone
    /\ callerDone' = TRUE
    /\ UNCHANGED <<graph, op, options, rpc, processed, indegree, waitingNotified, layer,
                   layerIndex, wpc, sem, layerCancelled, firstErr,
                   layerSummary, summary, retErr, progress, calls, okDone, planHashes,
                   diskHash, diskPlan, content, planVars, outsideRun>>

\* the steps of RunAll and of its workers
NextRunAll ==
    \/ RunAllReturn
    \/ RunAllCycle
    \/ RunLayerStart
    \/ \E s \in Stacks : WorkerAcquire(s)
    \/ \E s \in Stacks : WorkerCtxDone(s)
    \/ \E s \in Stacks : WorkerExecute(s)
    \/ LayerFailed
    \/ LayerProcessed

NextRun ==
    \/ NextRunAll
    \/ CancelCaller

SpecRun == InitRun /\ [][NextRun]_vars

\* RunAll on any graph value
SpecAnyGraph == InitAnyGraph /\ [][NextRun]_vars

(* ------------------------ PlanStack ------------------------------------ *)
\* planSingle: the cache-hit condition
planSingleCachedAnyHash(s) ==
    /\ options.UseCache
    /\ ~IsForced(s)
    /\ diskHash[s] # Nil
    /\ diskPlan[s] # Nil
planSingleCached(s) ==
    /\ options.UseCache
    /\ ~IsForced(s)
    /\ diskHash[s] # Nil
    /\ diskHash[s] = ComputeHash(content[s])
    /\ diskPlan[s] # Nil

\* executor.planSingle
planSingle(s, out) ==
    IF planSingleCached(s)
    THEN Result("cached", FALSE, <<>>, diskHash[s], diskPlan[s], planHashes[s])
    ELSE CASE out = "fail" ->
                Result("executed", TRUE, <<"PlanWithOutput">>, diskHash[s], diskPlan[s],
                       planHashes[s])
           [] out = "savefail" ->
                Result("executed", TRUE, <<"PlanWithOutput">>, diskHash[s],
                       ComputeHash(content[s]), planHashes[s])
           [] OTHER ->
                Result("executed", FALSE, <<"PlanWithOutput">>, ComputeHash(content[s]),
                       ComputeHash(content[s]), planHashes[s])

\* executor.PlanStack on stack s, while no plan-all is running
PlanStackCall(s) ==
    /\ op = "plan"
    /\ rpc = "done"
    /\ planCalls' = planCalls + 1
    /\ \E out \in Outcomes :
         LET r == planSingle(s, out)
         IN /\ calls' = [calls EXCEPT ![s] = @ \o r.call]
            /\ diskHash' = [diskHash EXCEPT ![s] = r.diskHash]
            /\ diskPlan' = [diskPlan EXCEPT ![s] = r.diskPlan]
            /\ single' = [stack |-> s, status |-> r.status, err |-> r.err]
            /\ planned' = IF r.status = "executed" /\ ~r.err
                          THEN [planned EXCEPT ![s] = content[s]]
                          ELSE planned
    /\ UNCHANGED <<graph, op, options, rpc, processed, indegree, waitingNotified, layer,
                   layerIndex, wpc, sem, layerCancelled, callerDone, firstErr,
                   layerSummary, summary, retErr, progress, okDone,
                   planHashes, content, outsideRun>>

\* executor.PlanStack on stack s, after the plan-all of the run has returned
PlanStack(s) == planCalls < MaxPlanCalls /\ PlanStackCall(s)

\* plan-all with one worker at a time: the cache decisions do not depend on
\* how the workers of a layer interleave, each touches only its own files
InitPlan == InitRun /\ op = "plan" /\ options.Parallelism = 1

NextPlan ==
    \/ NextRunAll
    \/ \E s \in Stacks : PlanStack(s)

\* plan-all, its context never cancelled, followed by plans of single stacks
SpecPlan == InitPlan /\ [][NextPlan]_vars

(* ------------------------ PlanStack with edits ------------------------- *)
\* byte streams the fingerprinted files of stack s can hold
Contents(s) == {ContentOf(s), OldContent, ContentOf(s) \o OldContent}

\* the user edits a fingerprinted file of stack s between two commands
EditInput(s) ==
    /\ rpc = "done"
    /\ edits < MaxEdits
    /\ edits' = edits + 1
    /\ \E c \in Contents(s) \ {content[s]} : content' = [content EXCEPT ![s] = c]
    /\ UNCHANGED <<graph, op, options, rpc, processed, indegree, waitingNotified, layer,
                   layerIndex, wpc, sem, layerCancelled, callerDone, firstErr,
                   layerSummary, summary, retErr, progress, calls, okDone,
                   planHashes, diskHash, diskPlan, planVars, topoVars, lockVars, versionVars,
                   restVars,
                   fs, flist>>

\* a process that runs no plan-all
NoPlanAll ==
    /\ op = "plan"
    /\ graph = MkGraph([s \in Stacks |-> {}], NoSkip)
    /\ rpc = "done"
    /\ processed = {}
    /\ indegree = [s \in Stacks |-> 0]
    /\ waitingNotified = {}
    /\ layer = {}
    /\ layerIndex = 1
    /\ wpc = [s \in Stacks |-> "none"]
    /\ sem = 0
    /\ layerCancelled = FALSE
    /\ callerDone = FALSE
    /\ firstErr = {}
    /\ layerSummary = EmptySummary
    /\ summary = EmptySummary
    /\ retErr = "none"
    /\ progress = [s \in Stacks |-> "pending"]
    /\ calls = [s \in Stacks |-> <<>>]
    /\ okDone = {}
    /\ planHashes = [s \in Stacks |-> Nil]
    /\ planCalls = 0
    /\ single = [stack |-> 0, status |-> "none", err |-> FALSE]
    /\ planned = [s \in Stacks |-> Nil]

\* PlanStack commands on stacks without dependencies, empty cache directories
InitCache ==
    /\ NoPlanAll
    /\ \E cache \in BOOLEAN, forced \in {{}, {1}} :
          /\ (~cache => forced = {})
          /\ options = [Parallelism |-> 1, UseCache |-> cache, ForceStacks |-> forced]
    /\ diskHash = [s \in Stacks |-> Nil]
    /\ diskPlan = [s \in Stacks |-> Nil]
    /\ content = [s \in Stacks |-> ContentOf(s)]
    /\ TopoIdle
    /\ LockIdle
    /\ HashIdle
    /\ VersionIdle
    /\ RestIdle

\* the stacks the commands name: one that --force can name and one it cannot
CacheStacks == {1, NStacks}

NextCache ==
    \/ \E s \in CacheStacks : planCalls < MaxCacheCalls /\ PlanStackCall(s)
    \/ \E s \in CacheStacks : EditInput(s)

\* plans of single stacks, one after the other, with edits in between
SpecCache == InitCache /\ [][NextCache]_vars

(* ------------------------ cache.ComputeHash ---------------------------- *)
\* paths under the stack directory, numbered in lexical order
DirPaths == 1..NFiles
\* the path of a var file, outside the stack directory
VarFilePath == 0

\* what StackContentFiles looks at: the directory a file is in and its extension
Kind(p) ==
    CASE p = VarFilePath -> "var"
      [] p % 4 = 1 -> ".terraform"
      [] p % 4 = 2 -> ".tf"
      [] p % 4 = 3 -> ".tfvars"
      [] OTHER     -> "other"

keepsFile(p) == Kind(p) \in {".tf", ".tfvars"}

\* cache.StackContentFiles: the walk in lexical order, then the extras
StackContentFiles(extras) == SelectSeq([i \in 1..NFiles |-> i], keepsFile) \o extras

\* var-file lists: none, one var file, a var file and a file of the stack again
ExtraChoices == {<<>>, <<VarFilePath>>, <<VarFilePath, 2>>}

ByteValues == {0, 1}

RECURSIVE sortStrings(_)
\* sort.Strings on a copy of the list
sortStringsKeepsOrder(files) == files
sortStrings(files) ==
    IF files = <<>> THEN <<>>
    ELSE LET m == CHOOSE x \in SeqToSet(files) : \A y \in SeqToSet(files) : x <= y
             i == CHOOSE j \in 1..Len(files) : files[j] = m
         IN <<m>> \o sortStrings(SubSeq(files, 1, i - 1) \o SubSeq(files, i + 1, Len(files)))

\* cache.hashFile: io.Copy of the file f[path] into the hash state h
hashFileFirstByte(f, h, path) == h \o SubSeq(f[path], 1, 1)
hashFile(f, h, path) == h \o f[path]

RECURSIVE hashFiles(_, _, _)
\* the loop of ComputeHash over the sorted list
hashFiles(f, h, sorted) ==
    IF sorted = <<>> THEN h
    ELSE hashFiles(f, hashFile(f, h, Head(sorted)), Tail(sorted))

\* the byte stream ComputeHash feeds to sha256 for the list files
streamOf(f, files) == hashFiles(f, <<>>, sortStrings(files))

\* cache.ComputeHash over the files of the list, their contents given by f
ComputeHashFiles(f, files) == ComputeHash(streamOf(f, files))

\* one byte of a file is overwritten with another value
ModifyByte(p, i, b) ==
    /\ rpc = "done"
    /\ edits < MaxEdits
    /\ p \in DOMAIN fs
    /\ i \in 1..Len(fs[p])
    /\ fs[p][i] # <<"byte", b>>
    /\ fs' = [fs EXCEPT ![p][i] = <<"byte", b>>]
    /\ edits' = edits + 1
    /\ content' = [content EXCEPT ![1] = streamOf(fs', flist)]
    /\ UNCHANGED <<graph, op, options, rpc, processed, indegree, waitingNotified, layer,
                   layerIndex, wpc, sem, layerCancelled, callerDone, firstErr,
                   layerSummary, summary, retErr, progress, calls, okDone,
                   planHashes, diskHash, diskPlan, planVars, topoVars, lockVars, versionVars,
                   restVars,
                   flist>>

\* the same files are listed in another order: entries i and i+1 swapped
Reorder(i) ==
    /\ rpc = "done"
    /\ edits < MaxEdits
    /\ i \in 1..(Len(flist) - 1)
    /\ flist[i] # flist[i + 1]
    /\ flist' = [flist EXCEPT ![i] = flist[i + 1], ![i + 1] = flist[i]]
    /\ edits' = edits + 1
    /\ content' = [content EXCEPT ![1] = streamOf(fs, flist')]
    /\ UNCHANGED <<graph, op, options, rpc, processed, indegree, waitingNotified, layer,
                   layerIndex, wpc, sem, layerCancelled, callerDone, firstErr,
                   layerSummary, summary, retErr, progress, calls, okDone,
                   planHashes, diskHash, diskPlan, planVars, topoVars, lockVars, versionVars,
                   restVars,
                   fs>>

\* stack 1 with its files on disk; the cache directory is empty or was left
\* by a plan-all of the same files
InitHash ==
    /\ NoPlanAll
    /\ options = [Parallelism |-> 1, UseCache |-> TRUE, ForceStacks |-> {}]
    /\ fs = [p \in {VarFilePath} \cup DirPaths |-> [i \in 1..MaxFileLen |-> <<"byte", 0>>]]
    /\ \E extras \in ExtraChoices : flist = StackContentFiles(extras)
    /\ edits = 0
    /\ content = [s \in Stacks |-> IF s = 1 THEN streamOf(fs, flist) ELSE ContentOf(s)]
    /\ \E warm \in BOOLEAN :
          /\ diskHash = [s \in Stacks |-> IF s = 1 /\ warm THEN hashBytes(s) ELSE Nil]
          /\ diskPlan = [s \in Stacks |-> IF s = 1 /\ warm THEN hashBytes(s) ELSE Nil]
    /\ TopoIdle
    /\ LockIdle
    /\ VersionIdle
    /\ RestIdle

NextHash ==
    \/ planCalls <= MaxPlanCalls /\ PlanStackCall(1)
    \/ \E p \in {VarFilePath} \cup DirPaths, i \in 1..MaxFileLen, b \in ByteValues :
          ModifyByte(p, i, b)
    \/ \E i \in 1..(NFiles + 2) : Reorder(i)

\* PlanStack commands on stack 1 with edits of files in between
SpecHash == InitHash /\ [][NextHash]_vars

(* ------------------------ versioning ----------------------------------- *)
\* terraform versions: 0 stands for a 0.x release, n >= 1 for release 1.n.0.
\* A *version.Version is a set: {} is nil, {v} points to v
Versions == 0..MaxVersion

\* the stacks of the repository
RStacks == {"a", "b"}

\* the versions a constraint string admits
Interval(lo, hi) == {v \in Versions : lo <= v /\ v <= hi}

\* ">= 1.0.0"
defaultConstraint == {v \in Versions : v >= 1}

\* versioning.DetectConstraints: the constraint of each stack
DetectConstraints ==
    [s \in RStacks |->
        IF required[s] = {} THEN defaultConstraint ELSE CHOOSE c \in required[s] : TRUE]

\* versioning.IsVersionCompatible
IsVersionCompatible(v, cs) == \A s \in DOMAIN cs : v \in cs[s]

\* version.String and version.NewVersion on the version field of the lock file
VersionString(v) == <<"v", v>>
NewVersion(str) == IF Len(str) = 2 /\ str[1] = "v" THEN {str[2]} ELSE {}

\* a lock document with the fields the resolver reads; ok is FALSE for
\* content that json.Unmarshal rejects
LockDoc(ok, ver, usedSystem) == [ok |-> ok, Version |-> ver, UsedSystemBinary |-> usedSystem]

\* versioning.ReadLockFile as the resolver uses it: nil for no file and,
\* after the warning, for a file that cannot be parsed
ReadLockFile == {d \in lockFile : d.ok}

ResolveOptions ==
    [ForceInstall : BOOLEAN, UseSystemOnly : BOOLEAN, DisableInstall : BOOLEAN,
     PinnedVersion : {{}} \cup {{v} : v \in Versions}]

\* what the installer, the releases index and the file system do during a call
EnvOutcomes == [inst1 : {"ok", "fail"}, inst2 : {"ok", "fail"}, fetch : {"ok", "fail"},
                write : {"ok", "fail"}]

\* ResolveTerraformBinary returns an error, or panics
Fails(kind, installed) ==
    [kind |-> kind, version |-> {}, usedSystem |-> FALSE, source |-> "none",
     installed |-> installed, wrote |-> FALSE, lockFile |-> lockFile]

\* versioning.finalizeResolution: the lock file written, the result returned
finalizeResolution(v, source, usedSystem, installed, write) ==
    [kind |-> "result", version |-> {v}, usedSystem |-> usedSystem, source |-> source,
     installed |-> installed, wrote |-> (write = "ok"),
     lockFile |-> IF write = "ok" THEN {LockDoc(TRUE, VersionString(v), usedSystem)}
                  ELSE lockFile]

\* versioning.ensureVersionInstalled
ensureVersionInstalled(v, inst) ==
    IF v \in cacheVersions THEN [ok |-> TRUE, source |-> "cached", installed |-> {}]
    ELSE IF inst = "ok" THEN [ok |-> TRUE, source |-> "installed", installed |-> {v}]
    ELSE [ok |-> FALSE, source |-> "none", installed |-> {}]

\* resolveInstallVersion that returns the preferred version unchecked
resolveInstallVersionUnchecked(cs, preferred, fetch) ==
    LET fits == {v \in Versions : IsVersionCompatible(v, cs)}
    IN IF preferred # {} THEN preferred
       ELSE IF fetch = "fail" \/ fits = {} THEN {}
       ELSE {CHOOSE v \in fits : \A u \in fits : u <= v}

\* versioning.resolveInstallVersion; {} stands for the error return
resolveInstallVersion(cs, preferred, fetch) ==
    LET fits == {v \in Versions : IsVersionCompatible(v, cs)}
    IN IF preferred # {} /\ preferred \subseteq fits THEN preferred
       ELSE IF fetch = "fail" \/ fits = {} THEN {}
       ELSE {CHOOSE v \in fits : \A u \in fits : u <= v}

\* ResolveTerraformBinary: resolve an install target, install it, finalize
installTarget(cs, preferred, env) ==
    LET target == resolveInstallVersion(cs, preferred, env.fetch)
        v == CHOOSE x \in target : TRUE
        e == ensureVersionInstalled(v, env.inst2)
    IN IF target = {} THEN Fails("error", {})
       ELSE IF ~e.ok THEN Fails("error", {})
       ELSE finalizeResolution(v, e.source, FALSE, e.installed, env.write)

\* ResolveTerraformBinary after the lock-reuse block
afterReuse(o, cs, lockVersion, env) ==
    IF o.ForceInstall THEN installTarget(cs, lockVersion, env)
    ELSE IF systemVersion # {} /\ \A v \in systemVersion : IsVersionCompatible(v, cs)
         THEN finalizeResolution(CHOOSE v \in systemVersion : TRUE, "system", TRUE, {},
                                 env.write)
    ELSE IF o.DisableInstall THEN Fails("error", {})
    ELSE installTarget(cs, lockVersion, env)

\* ResolveTerraformBinary: the lock-reuse block, entered with a compatible
\* lockVersion lv; lock is dereferenced without a nil check
reuseLockIgnoresDisable(o, cs, lock, lv, env) ==
    LET e == ensureVersionInstalled(lv, env.inst1)
    IN IF lock = {} THEN Fails("panic", {})
       ELSE IF (\A d \in lock : d.UsedSystemBinary) /\ systemVersion = {lv}
            THEN finalizeResolution(lv, "system", TRUE, {}, env.write)
       ELSE IF lv \in cacheVersions
            THEN finalizeResolution(lv, "cached", FALSE, {}, env.write)
       ELSE IF e.ok THEN finalizeResolution(lv, e.source, FALSE, e.installed, env.write)
       ELSE afterReuse(o, cs, {lv}, env)
reuseLock(o, cs, lock, lv, env) ==
    LET e == ensureVersionInstalled(lv, env.inst1)
    IN IF lock = {} THEN Fails("panic", {})
       ELSE IF (\A d \in lock : d.UsedSystemBinary) /\ systemVersion = {lv}
            THEN finalizeResolution(lv, "system", TRUE, {}, env.write)
       ELSE IF lv \in cacheVersions
            THEN finalizeResolution(lv, "cached", FALSE, {}, env.write)
       ELSE IF o.DisableInstall THEN Fails("error", {})
       ELSE IF e.ok THEN finalizeResolution(lv, e.source, FALSE, e.installed, env.write)
       ELSE afterReuse(o, cs, {lv}, env)

\* versioning.ResolveTerraformBinary
pinAcceptedAlways(o, cs) == TRUE
pinAccepted(o, cs) == \A v \in o.PinnedVersion : IsVersionCompatible(v, cs)

ResolveTerraformBinary(o, env) ==
    LET cs == DetectConstraints
        lock == ReadLockFile
        fileVersion == UNION {NewVersion(d.Version) : d \in lock}
        lockVersion == IF o.PinnedVersion # {} THEN o.PinnedVersion ELSE fileVersion
    IN IF o.ForceInstall /\ o.UseSystemOnly THEN Fails("error", {})
       ELSE IF o.ForceInstall /\ o.DisableInstall THEN Fails("error", {})
       ELSE IF ~pinAccepted(o, cs) THEN Fails("error", {})
       ELSE IF o.UseSystemOnly
            THEN IF systemVersion = {} THEN Fails("error", {})
                 ELSE finalizeResolution(CHOOSE v \in systemVersion : TRUE, "system",
                                         TRUE, {}, env.write)
       ELSE IF /\ ~o.ForceInstall
               /\ lockVersion # {}
               /\ \A v \in lockVersion : IsVersionCompatible(v, cs)
            THEN reuseLock(o, cs, lock, CHOOSE v \in lockVersion : TRUE, env)
       ELSE afterReuse(o, cs, lockVersion, env)

\* one command invocation resolves the binary
Resolve(o, env) ==
    /\ resolves = 0
    /\ LET r == ResolveTerraformBinary(o, env)
       IN /\ lockFile' = r.lockFile
          /\ cacheVersions' = cacheVersions \cup r.installed
          /\ resolved' = [opts |-> o, kind |-> r.kind, version |-> r.version,
                          usedSystem |-> r.usedSystem, source |-> r.source,
                          installed |-> r.installed, wrote |-> r.wrote]
    /\ resolves' = resolves + 1
    /\ UNCHANGED <<required, systemVersion, writeVars>>
    /\ UNCHANGED <<runVars, planVars, topoVars, lockVars, hashVars, restVars>>

\* constraints of the stacks: stack a has no required_version or an
\* interval, stack b has none
RequiredChoices ==
    {[a |-> ra, b |-> {}] :
        ra \in {{}} \cup ({{Interval(lo, hi)} : lo \in Versions, hi \in Versions}
                          \ {{{}}})}

\* lock files: none, unparseable, an invalid version, a version
LockFileChoices ==
    {{}, {LockDoc(FALSE, <<"bad">>, FALSE)}, {LockDoc(TRUE, <<"bad">>, FALSE)}}
        \cup {{LockDoc(TRUE, VersionString(v), u)} : v \in Versions, u \in BOOLEAN}

InitResolve ==
    /\ required \in RequiredChoices
    /\ systemVersion \in {{}} \cup {{v} : v \in Versions}
    /\ lockFile \in LockFileChoices
    /\ cacheVersions \in {{}} \cup {{v} : v \in Versions}
    /\ resolved = <<>>
    /\ resolves = 0
    /\ WriteIdle
    /\ RunIdle
    /\ TopoIdle
    /\ LockIdle
    /\ HashIdle
    /\ RestIdle

NextResolve == \E o \in ResolveOptions, env \in EnvOutcomes : Resolve(o, env)

SpecResolve == InitResolve /\ [][NextResolve]_vars

(* ------------------------ versioning.WriteLockFile --------------------- *)
\* processes that call WriteLockFile on the same path
Writers == 1..NWriters

\* the marshalled document of writer w, as the chunks os.WriteFile writes;
\* writer 0 stands for the call that left the previous content
DocOf(w) == [i \in 1..DocChunks |-> <<w, i>>]

\* the bytes a reader of the lock-file path gets now ({}: no such file)
pathContent == {inodes[i] : i \in entries.path}

writerVarsUnchanged == UNCHANGED <<required, systemVersion, lockFile, cacheVersions,
                                   resolved, resolves>>

othersUnchanged == UNCHANGED <<runVars, planVars, topoVars, lockVars, hashVars, restVars>>

\* WriteLockFile returns at pc with the value ret
WriteReturns(w, ret) ==
    /\ wrpc' = [wrpc EXCEPT ![w] = "done"]
    /\ wret' = [wret EXCEPT ![w] = ret]

\* normalize, the version check, MkdirAll and MarshalIndent: an empty
\* version or a failing MkdirAll returns an error
WriteStart(w) ==
    /\ wrpc[w] = "idle"
    /\ \/ wrpc' = [wrpc EXCEPT ![w] = "open"] /\ UNCHANGED wret
       \/ WriteReturns(w, "error")
    /\ UNCHANGED <<entries, inodes, wfd, woff, seen>>
    /\ writerVarsUnchanged /\ othersUnchanged

\* os.WriteFile(tmp): open with O_CREATE|O_TRUNC, or the open fails
OpenTmp(w) ==
    /\ wrpc[w] = "open"
    /\ \/ /\ entries.tmp = {}
          /\ LET i == Len(inodes) + 1
             IN /\ inodes' = Append(inodes, <<>>)
                /\ entries' = [entries EXCEPT !.tmp = {i}]
                /\ wfd' = [wfd EXCEPT ![w] = {i}]
          /\ wrpc' = [wrpc EXCEPT ![w] = "write"]
          /\ UNCHANGED wret
       \/ /\ entries.tmp # {}
          /\ inodes' = [i \in DOMAIN inodes |-> IF i \in entries.tmp THEN <<>> ELSE inodes[i]]
          /\ wfd' = [wfd EXCEPT ![w] = entries.tmp]
          /\ wrpc' = [wrpc EXCEPT ![w] = "write"]
          /\ UNCHANGED <<entries, wret>>
       \/ /\ WriteReturns(w, "error")
          /\ UNCHANGED <<entries, inodes, wfd>>
    /\ UNCHANGED <<woff, seen>>
    /\ writerVarsUnchanged /\ othersUnchanged

\* the bytes of an inode after chunk c is written at offset k (counted in
\* chunks): a write beyond the end leaves a hole of zero bytes
writeAt(old, k, c) ==
    [j \in 1..(IF Len(old) > k + 1 THEN Len(old) ELSE k + 1) |->
        IF j = k + 1 THEN c
        ELSE IF j <= Len(old) THEN old[j] ELSE <<"hole">>]

\* os.WriteFile(tmp): one write through the descriptor, or the write fails
WriteChunk(w) ==
    /\ wrpc[w] = "write"
    /\ woff[w] < DocChunks
    /\ \/ /\ inodes' = [i \in DOMAIN inodes |->
                          IF i \in wfd[w] THEN writeAt(inodes[i], woff[w], DocOf(w)[woff[w] + 1])
                          ELSE inodes[i]]
          /\ woff' = [woff EXCEPT ![w] = @ + 1]
          /\ UNCHANGED <<wrpc, wret>>
       \/ /\ WriteReturns(w, "error")
          /\ UNCHANGED <<inodes, woff>>
    /\ UNCHANGED <<entries, wfd, seen>>
    /\ writerVarsUnchanged /\ othersUnchanged

\* os.Rename(tmp, path) after the descriptor is closed; it fails when tmp
\* does not exist any more, and can fail otherwise
Rename(w) ==
    /\ wrpc[w] = "write"
    /\ woff[w] = DocChunks
    /\ \/ /\ entries.tmp # {}
          /\ entries' = [path |-> entries.tmp, tmp |-> {}]
          /\ WriteReturns(w, "nil")
       \/ /\ WriteReturns(w, "error")
          /\ UNCHANGED entries
    /\ UNCHANGED <<inodes, wfd, woff, seen>>
    /\ writerVarsUnchanged /\ othersUnchanged

\* a reader reads the file at the lock-file path
ReadPath ==
    /\ pathContent # {}
    /\ seen' = seen \cup pathContent
    /\ UNCHANGED <<entries, inodes, wrpc, wfd, woff, wret>>
    /\ writerVarsUnchanged /\ othersUnchanged

\* the lock file is absent or holds the document of an earlier call; no
\* path.tmp is left over
InitWrite ==
    /\ \/ entries = [path |-> {}, tmp |-> {}] /\ inodes = <<>>
       \/ entries = [path |-> {1}, tmp |-> {}] /\ inodes = <<DocOf(0)>>
    /\ wrpc = [w \in Writers |-> "idle"]
    /\ wfd = [w \in Writers |-> {}]
    /\ woff = [w \in Writers |-> 0]
    /\ wret = [w \in Writers |-> "none"]
    /\ seen = {}
    /\ required = <<>> /\ systemVersion = <<>> /\ lockFile = <<>>
    /\ cacheVersions = {} /\ resolved = <<>> /\ resolves = 0
    /\ RunIdle
    /\ TopoIdle
    /\ LockIdle
    /\ HashIdle
    /\ RestIdle

NextWrite ==
    \/ \E w \in Writers : WriteStart(w)
    \/ \E w \in Writers : OpenTmp(w)
    \/ \E w \in Writers : WriteChunk(w)
    \/ \E w \in Writers : Rename(w)
    \/ ReadPath

\* command invocations that each write the lock file once, and readers
SpecWrite == InitWrite /\ [][NextWrite]_vars

(* ------------------- versioning: LockFile round trip ------------------- *)

\* the characters of the strings followed here, in byte order
Chars == <<".", "/", "a", "b">>

CharSet == {Chars[i] : i \in 1..Len(Chars)}

ord(c) == CHOOSE i \in 1..Len(Chars) : Chars[i] = c

\* the strings of at most n characters
StringsUpTo(n) == UNION {[1..k -> CharSet] : k \in 0..n}

\* Go's < on strings: byte-wise lexicographic
RECURSIVE stringLess(_, _)
stringLess(s, t) ==
    IF t = <<>> THEN FALSE
    ELSE IF s = <<>> THEN TRUE
    ELSE IF s[1] = t[1] THEN stringLess(Tail(s), Tail(t))
    ELSE ord(s[1]) < ord(t[1])

\* strings.HasPrefix and strings.TrimPrefix
HasPrefix(s, prefix) ==
    Len(s) >= Len(prefix) /\ SubSeq(s, 1, Len(prefix)) = prefix

TrimPrefix(s, prefix) ==
    IF HasPrefix(s, prefix) THEN SubSeq(s, Len(prefix) + 1, Len(s)) ELSE s

\* the segments of s between its slashes: cur is the segment being read
RECURSIVE splitSlash(_, _, _)
splitSlash(s, cur, acc) ==
    IF s = <<>> THEN Append(acc, cur)
    ELSE IF s[1] = "/" THEN splitSlash(Tail(s), <<>>, Append(acc, cur))
    ELSE splitSlash(Tail(s), Append(cur, s[1]), acc)

RECURSIVE joinSlash(_)
joinSlash(segs) ==
    IF segs = <<>> THEN <<>>
    ELSE IF Len(segs) = 1 THEN segs[1]
    ELSE segs[1] \o <<"/">> \o joinSlash(Tail(segs))

\* filepath.Clean's pass over the segments: empty and "." segments are
\* dropped, ".." removes the segment before it, is dropped at the root and
\* kept at the start of a relative path
RECURSIVE cleanSegs(_, _, _)
cleanSegs(segs, rooted, out) ==
    IF segs = <<>> THEN out
    ELSE LET g == Head(segs)
             r == Tail(segs)
         IN IF g = <<>> \/ g = <<".">> THEN cleanSegs(r, rooted, out)
            ELSE IF g = <<".", ".">>
            THEN IF out # <<>> /\ out[Len(out)] # <<".", ".">>
                 THEN cleanSegs(r, rooted, SubSeq(out, 1, Len(out) - 1))
                 ELSE IF rooted THEN cleanSegs(r, rooted, out)
                 ELSE cleanSegs(r, rooted, Append(out, g))
            ELSE cleanSegs(r, rooted, Append(out, g))

\* filepath.Clean: the shortest equivalent path, "." for the empty one
Clean(s) ==
    LET rooted == s # <<>> /\ s[1] = "/"
        body == joinSlash(cleanSegs(splitSlash(s, <<>>, <<>>), rooted, <<>>))
        res == IF rooted THEN <<"/">> \o body ELSE body
    IN IF res = <<>> THEN <<".">> ELSE res

\* filepath.ToSlash where the separator is the slash
ToSlash(s) == s

\* a []string: nil, or a possibly empty slice
NilSlice == [isNil |-> TRUE, items |-> <<>>]

Slice(items) == [isNil |-> FALSE, items |-> items]

\* sort.Strings of the keys of a set of strings
RECURSIVE sortedKeys(_)
sortedKeys(set) ==
    IF set = {} THEN <<>>
    ELSE LET m == CHOOSE x \in set : \A y \in set \ {x} : stringLess(x, y)
         IN <<m>> \o sortedKeys(set \ {m})

\* LockFile.normalize, the body of its loop over DetectedFrom
cleanStack(stack) ==
    LET c == Clean(ToSlash(stack))
        d == IF c = <<".">> THEN <<>> ELSE c
    IN TrimPrefix(d, <<".", "/">>)

\* LockFile.normalize
normalize(l) ==
    IF Len(l.DetectedFrom.items) = 0 THEN l
    ELSE LET from == l.DetectedFrom.items
             unique == {cleanStack(from[i]) : i \in 1..Len(from)} \ {<<>>}
         IN IF unique = {} THEN [l EXCEPT !.DetectedFrom = NilSlice]
            ELSE [l EXCEPT !.DetectedFrom = Slice(sortedKeys(unique))]

\* encoding/json on the LockFile struct tags: a member is a set, empty
\* when the document has no member of that name
marshalBinaryPathOmitted(s) == {}

\* `json:"binary_path,omitempty"`
marshalBinaryPath(s) == IF s = <<>> THEN {} ELSE {[str |-> s]}

\* `json:"detected_from"`: null for a nil slice, an array otherwise
marshalDetectedFrom(sl) ==
    IF sl.isNil THEN [null |-> TRUE]
    ELSE [arr |-> [i \in 1..Len(sl.items) |-> [str |-> sl.items[i]]]]

\* json.MarshalIndent(lock)
Marshal(l) ==
    [version |-> {[str |-> l.Version]},
     used_system_binary |-> {[bool |-> l.UsedSystemBinary]},
     binary_path |-> marshalBinaryPath(l.BinaryPath),
     detected_from |-> {marshalDetectedFrom(l.DetectedFrom)}]

\* the value a member decodes to, zero when the member is missing
memberOr(member, field, zero) ==
    IF member = {} THEN zero ELSE (CHOOSE v \in member : TRUE)[field]

unmarshalDetectedFrom(member) ==
    IF member = {} THEN NilSlice
    ELSE LET v == CHOOSE x \in member : TRUE
         IN IF "null" \in DOMAIN v THEN NilSlice
            ELSE Slice([i \in 1..Len(v.arr) |-> v.arr[i].str])

\* json.Unmarshal(data, &lock) into a zero LockFile
Unmarshal(j) ==
    [Version |-> memberOr(j.version, "str", <<>>),
     UsedSystemBinary |-> memberOr(j.used_system_binary, "bool", FALSE),
     BinaryPath |-> memberOr(j.binary_path, "str", <<>>),
     DetectedFrom |-> unmarshalDetectedFrom(j.detected_from)]

\* WriteLockFile(path, lock): an empty version is an error and nothing is
\* written; otherwise the marshalled normalized lock replaces the file
WriteLockFile ==
    /\ tripDoc # <<>> /\ tripFile = {} /\ ~tripErr
    /\ LET lock == normalize(tripDoc)
       IN IF lock.Version = <<>>
          THEN tripErr' = TRUE /\ UNCHANGED tripFile
          ELSE tripFile' = {Marshal(lock)} /\ UNCHANGED tripErr
    /\ UNCHANGED <<tripDoc, tripRead>>
    /\ UNCHANGED besidesTrip

\* ReadLockFile(path): nil when the file does not exist, the normalized
\* decoded document otherwise
ReadLockFileCall ==
    /\ tripDoc # <<>> /\ tripRead = {}
    /\ tripRead' = {[lock |-> {normalize(Unmarshal(j)) : j \in tripFile}]}
    /\ UNCHANGED <<tripDoc, tripFile, tripErr>>
    /\ UNCHANGED besidesTrip

\* the stack paths the lists of several entries are made of
ListPaths ==
    {<<"a">>, <<"b">>, <<".", "/", "b">>, <<".">>, <<"b", "/">>}

\* the DetectedFrom values: nil, empty, every single string, and lists
DetectedChoices ==
    {NilSlice}
    \cup {Slice(<<p>>) : p \in StringsUpTo(MaxPathLen)}
    \cup {Slice(s) : s \in UNION {[1..k -> ListPaths] : k \in {0} \cup 2..MaxDetected}}

LockFiles ==
    [Version : {<<>>, <<"a">>},
     UsedSystemBinary : BOOLEAN,
     BinaryPath : {<<>>, <<"/", "a">>},
     DetectedFrom : DetectedChoices]

InitTrip ==
    /\ tripDoc \in LockFiles
    /\ tripFile = {} /\ tripRead = {} /\ tripErr = FALSE
    /\ FaultIdle
    /\ PrefixIdle
    /\ LifecycleIdle
    /\ SuperplanIdle
    /\ BootstrapIdle
    /\ SummaryIdle
    /\ RunIdle
    /\ TopoIdle
    /\ LockIdle
    /\ HashIdle
    /\ VersionIdle

NextTrip ==
    \/ WriteLockFile
    \/ ReadLockFileCall

\* one lock document written once and read once
SpecTrip == InitTrip /\ [][NextTrip]_vars

(* ------------------- superplan: state prefixing ------------------------ *)

\* strings.Split and strings.Join on strings that are sequences of symbols;
\* a symbol is one character or an indivisible word without '.' or '_'
RECURSIVE splitAt(_, _, _, _)
splitAt(s, sep, cur, acc) ==
    IF s = <<>> THEN Append(acc, cur)
    ELSE IF s[1] = sep THEN splitAt(Tail(s), sep, <<>>, Append(acc, cur))
    ELSE splitAt(Tail(s), sep, Append(cur, s[1]), acc)

Split(s, sep) == splitAt(s, sep, <<>>, <<>>)

RECURSIVE Join(_, _)
Join(parts, sep) ==
    IF parts = <<>> THEN <<>>
    ELSE IF Len(parts) = 1 THEN parts[1]
    ELSE parts[1] \o <<sep>> \o Join(Tail(parts), sep)

prefixSegmentAlways(prefix, segment) == prefix \o <<"_">> \o segment

\* prefixSegment
prefixSegment(prefix, segment) ==
    IF prefix = <<>> THEN segment
    ELSE LET prefixWithUnderscore == prefix \o <<"_">>
         IN IF HasPrefix(segment, prefixWithUnderscore) THEN segment
            ELSE prefixWithUnderscore \o segment

\* the loop of rewriteAddress and rewriteModuleAddress from index i on: the
\* segment after the first "module" that has one is prefixed, and the
\* segment after any "module" is stepped over
RECURSIVE prefixModules(_, _, _, _)
prefixModules(stackName, parts, i, modulePrefixed) ==
    IF i > Len(parts) THEN [parts |-> parts, modulePrefixed |-> modulePrefixed]
    ELSE IF parts[i] = <<"module">> /\ i + 1 <= Len(parts)
    THEN IF ~modulePrefixed
         THEN prefixModules(stackName,
                  [parts EXCEPT ![i + 1] = prefixSegment(stackName, parts[i + 1])],
                  i + 2, TRUE)
         ELSE prefixModules(stackName, parts, i + 2, modulePrefixed)
    ELSE prefixModules(stackName, parts, i + 1, modulePrefixed)

rewriteAddressEverySegment(stackName, address) ==
    LET parts == Split(address, ".")
    IN Join([i \in 1..Len(parts) |-> prefixSegment(stackName, parts[i])], ".")

\* rewriteAddress
rewriteAddress(stackName, address) ==
    IF stackName = <<>> \/ address = <<>> THEN address
    ELSE LET loop == prefixModules(stackName, Split(address, "."), 1, FALSE)
             parts == loop.parts
             typeIdx == IF parts[1] = <<"data">> THEN 2 ELSE 1
         IN IF loop.modulePrefixed THEN Join(parts, ".")
            ELSE IF typeIdx > Len(parts) THEN Join(parts, ".")
            ELSE IF typeIdx + 1 > Len(parts) THEN Join(parts, ".")
            ELSE Join([parts EXCEPT ![typeIdx + 1] =
                           prefixSegment(stackName, parts[typeIdx + 1])], ".")

\* rewriteModuleAddress
rewriteModuleAddress(stackName, address) ==
    IF stackName = <<>> \/ address = <<>> THEN address
    ELSE Join(prefixModules(stackName, Split(address, "."), 1, FALSE).parts, ".")

\* rewriteDependencies
rewriteDependencies(deps, stackName) ==
    [i \in 1..Len(deps) |-> rewriteAddress(stackName, deps[i])]

\* a JSON member that may be missing is a set with at most one value
mapMember(member, f(_)) == {f(v) : v \in member}

\* prefixResources, the body of its loop over the instances
prefixInstance(inst, stackName) ==
    [dependencies |->
         mapMember(inst.dependencies, LAMBDA d : rewriteDependencies(d, stackName)),
     deposed |->
         mapMember(inst.deposed, LAMBDA d : rewriteDependencies(d, stackName))]

\* prefixResources, the body of its loop over the resources
prefixResource(r, stackName) ==
    [name |-> IF r.module \subseteq {<<>>}
              THEN mapMember(r.name, LAMBDA n : prefixSegment(stackName, n))
              ELSE r.name,
     address |-> mapMember(r.address, LAMBDA a : rewriteAddress(stackName, a)),
     module |-> mapMember(r.module, LAMBDA m :
                    IF m # <<>> THEN rewriteModuleAddress(stackName, m) ELSE m),
     depends_on |->
         mapMember(r.depends_on, LAMBDA d : rewriteDependencies(d, stackName)),
     instances |->
         mapMember(r.instances, LAMBDA insts :
             [i \in 1..Len(insts) |-> prefixInstance(insts[i], stackName)])]

\* prefixResources
prefixResources(state, stackName) ==
    [state EXCEPT !.resources =
        mapMember(state.resources, LAMBDA rs :
            [i \in 1..Len(rs) |-> prefixResource(rs[i], stackName)])]

\* prefixOutputs, one output value: its depends_on is rewritten
prefixOutputValue(value, stackName) ==
    [value EXCEPT !.depends_on =
        mapMember(value.depends_on, LAMBDA d : rewriteDependencies(d, stackName))]

\* prefixOutputs on the outputs object: every key is prefixed; of the keys
\* that become the same new key the one the map iteration reaches last
\* keeps its value
prefixedOutputs(outputs, stackName) ==
    LET newNames == {prefixSegment(stackName, name) : name \in DOMAIN outputs}
        from(newName) ==
            {name \in DOMAIN outputs : prefixSegment(stackName, name) = newName}
    IN {[newName \in newNames |-> prefixOutputValue(outputs[pick[newName]], stackName)] :
           pick \in {p \in [newNames -> DOMAIN outputs] :
                        \A n \in newNames : p[n] \in from(n)}}

\* prefixOutputs: the states it can leave
prefixOutputs(state, stackName) ==
    IF state.outputs = {} THEN {state}
    ELSE {[state EXCEPT !.outputs = {o}] :
             o \in UNION {prefixedOutputs(outs, stackName) : outs \in state.outputs}}

\* Run, lines 223 and 228: the state is rewritten with the stack's prefix
RewriteState ==
    /\ spRewrites < MaxRewrites
    /\ \E st \in spState :
          \E next \in prefixOutputs(prefixResources(st, spPrefix), spPrefix) :
              spState' = {next}
    /\ spRewrites' = spRewrites + 1
    /\ UNCHANGED <<spPrefix, spPulled>>
    /\ UNCHANGED besidesPrefix

\* the stack prefixes: sanitized directory names
Prefixes == {<<"p">>, <<"p", "_", "x">>}

\* the segments addresses are made of: the two keywords, a plain name, a
\* name that begins with "p_" and the bare word "p"
Segments == {<<"module">>, <<"data">>, <<"x">>, <<"p", "_", "x">>, <<"p">>}

\* the addresses of at most MaxParts segments, and the empty address
Addresses ==
    {<<>>} \cup UNION {{Join(parts, ".") : parts \in [1..k -> Segments]} : k \in 1..MaxParts}

\* the addresses of a resource, of a data source and of a resource in a module
FewAddresses ==
    {Join(<<<<"x">>, <<"x">>>>, "."),
     Join(<<<<"data">>, <<"x">>, <<"p", "_", "x">>>>, "."),
     Join(<<<<"module">>, <<"x">>, <<"x">>, <<"x">>>>, ".")}

ModulePaths ==
    {<<>>, Join(<<<<"module">>, <<"x">>>>, "."),
     Join(<<<<"module">>, <<"p", "_", "x">>, <<"module">>, <<"x">>>>, ".")}

\* a resource object of the pulled state
Resource(name, address, module, depends_on, instances) ==
    [name |-> name, address |-> address, module |-> module,
     depends_on |-> depends_on, instances |-> instances]

DependencyLists ==
    {<<>>} \cup {<<a>> : a \in FewAddresses}

InstanceLists ==
    {<<[dependencies |-> {d}, deposed |-> {}]>> : d \in DependencyLists}
    \cup {<<[dependencies |-> {}, deposed |-> {<<a>>}]>> : a \in FewAddresses}

\* the outputs objects: any keys among x, p_x and p, each with its own value
OutputKeys == {<<"x">>, <<"p", "_", "x">>, <<"p">>}

OutputsObjects ==
    {[k \in keys |-> [value |-> k, depends_on |-> dep]] :
        keys \in SUBSET OutputKeys, dep \in {{}, {<<Join(<<<<"x">>, <<"x">>>>, ".")>>}}}

\* the pulled states: no resources member at all; one resource with any
\* address; one resource with any of the other members; the two resources of
\* TestPrefixResourcesAndOutputs
PulledStates ==
    {[resources |-> {}, outputs |-> {o}] : o \in OutputsObjects}
    \cup {[resources |-> {<<Resource({<<"x">>}, {a}, {}, {}, {})>>}, outputs |-> {}] :
             a \in Addresses}
    \cup {[resources |-> {<<Resource(n, {a}, m, d, {})>>}, outputs |-> {}] :
             n \in {{}, {<<"x">>}, {<<"p", "_", "x">>}}, a \in FewAddresses,
             m \in {{}} \cup {{p} : p \in ModulePaths},
             d \in {{}} \cup {{l} : l \in DependencyLists}}
    \cup {[resources |-> {<<Resource({<<"x">>}, {}, {}, {}, {i})>>}, outputs |-> {}] :
             i \in InstanceLists}
    \cup {[resources |->
               {<<Resource({<<"x">>}, {Join(<<<<"x">>, <<"p">>>>, ".")}, {}, {}, {}),
                  Resource({<<"x">>},
                           {Join(<<<<"module">>, <<"x">>, <<"x">>, <<"x">>>>, ".")},
                           {}, {}, {})>>},
           outputs |-> {o}] : o \in OutputsObjects}

InitPrefix ==
    /\ spPrefix \in Prefixes
    /\ spPulled \in PulledStates
    /\ spState = {spPulled}
    /\ spRewrites = 0
    /\ TripIdle
    /\ FaultIdle
    /\ LifecycleIdle
    /\ SuperplanIdle
    /\ BootstrapIdle
    /\ SummaryIdle
    /\ RunIdle
    /\ TopoIdle
    /\ LockIdle
    /\ HashIdle
    /\ VersionIdle

NextPrefix == RewriteState

\* one pulled state rewritten with its stack's prefix, again and again
SpecPrefix == InitPrefix /\ [][NextPrefix]_vars

(* ------------------- superplan: lifecycle ignore_changes --------------- *)

\* the separators of containsIgnoreAttr's strings.FieldsFunc
FieldSeparators == {"[", "]", ",", " ", "\t", "\n", "\r", "(", ")"}

\* strings.FieldsFunc: the maximal runs of symbols that are not separators
RECURSIVE fieldsFrom(_, _, _)
fieldsFrom(s, cur, acc) ==
    IF s = <<>> THEN (IF cur = <<>> THEN acc ELSE Append(acc, cur))
    ELSE IF s[1] \in FieldSeparators
    THEN fieldsFrom(Tail(s), <<>>, IF cur = <<>> THEN acc ELSE Append(acc, cur))
    ELSE fieldsFrom(Tail(s), Append(cur, s[1]), acc)

\* containsIgnoreAttr
containsIgnoreAttr(expr, attr) ==
    \E i \in 1..Len(fieldsFrom(expr, <<>>, <<>>)) :
        fieldsFrom(expr, <<>>, <<>>)[i] = <<attr>>

\* an ignore_changes expression as the parser sees it: a tuple literal of
\* element expressions, each with the comment that follows it in the source
\* (empty: none), or an expression of another kind
Tuple(items) == [kind |-> "tuple", items |-> items, src |-> <<>>]

NonLiteral(src) == [kind |-> "other", items |-> <<>>, src |-> src]

Item(src, quoted, comment) == [src |-> src, quoted |-> quoted, comment |-> comment]

\* tokensToString of the expression's tokens: the source text, the
\* comments inside the brackets included
RECURSIVE itemsString(_)
itemsString(items) ==
    IF items = <<>> THEN <<>>
    ELSE LET it == Head(items)
         IN it.src
            \o (IF Len(items) > 1 \/ it.comment # <<>> THEN <<",">> ELSE <<>>)
            \o (IF it.comment # <<>> THEN <<" ">> \o it.comment \o <<"\n">>
                ELSE IF Len(items) > 1 THEN <<" ">> ELSE <<>>)
            \o itemsString(Tail(items))

tokensToString(e) ==
    IF e.kind = "tuple" THEN <<"[">> \o itemsString(e.items) \o <<"]">> ELSE e.src

\* extendIgnoreChangesExpression: nothing to do when the text has attr as a
\* field; a tuple literal gets attr appended to the source of its
\* elements; anything else is wrapped in concat(...)
extendIgnoreChangesExpression(current, attr) ==
    IF containsIgnoreAttr(tokensToString(current), attr) THEN current
    ELSE IF current.kind = "tuple"
    THEN IF \E i \in 1..Len(current.items) : current.items[i].src = <<attr>>
         THEN current
         ELSE Tuple([i \in 1..Len(current.items) + 1 |->
                        IF i <= Len(current.items)
                        THEN Item(current.items[i].src, current.items[i].quoted, <<>>)
                        ELSE Item(<<attr>>, FALSE, <<>>)])
    ELSE NonLiteral(<<"concat", "(">> \o tokensToString(current)
                    \o <<",", " ", "[", attr, "]", ")">>)

\* the resource types of the model: one that takes tags, one of
\* tagLifecycleSkipTypes and one of another provider
TaggedType == <<"aws", "_", "s3_bucket">>

TaglessType == <<"aws", "_", "iam_role_policy_attachment">>

OtherType == <<"google", "_", "storage_bucket">>

\* shouldSkipTagLifecycle
shouldSkipTagLifecycle(resourceType) == resourceType = TaglessType

\* addIgnoreChangesAttribute(lifecycleBody, {"tags", "tags_all"})
targetTuple == Tuple(<<Item(<<"tags">>, FALSE, <<>>), Item(<<"tags_all">>, FALSE, <<>>)>>)

\* ensureLifecycleIgnoresTags on a block: its type, its first label, and its
\* lifecycle block ({}: none) with the ignore_changes attribute ({}: none)
ensureLifecycleIgnoresTags(block) ==
    IF block.type # "resource" THEN block
    ELSE IF ~HasPrefix(block.resourceType, <<"aws", "_">>)
            \/ shouldSkipTagLifecycle(block.resourceType)
    THEN block
    ELSE IF block.lifecycle = {} \/ block.lifecycle = {[ignore_changes |-> {}]}
    THEN [block EXCEPT !.lifecycle = {[ignore_changes |-> {targetTuple}]}]
    ELSE LET current == CHOOSE e \in (CHOOSE l \in block.lifecycle : TRUE).ignore_changes : TRUE
             updated == extendIgnoreChangesExpression(
                            extendIgnoreChangesExpression(current, "tags"), "tags_all")
         IN [block EXCEPT !.lifecycle = {[ignore_changes |-> {updated}]}]

\* the element expressions of the tuples: attribute names, an element of the
\* tags map, and a quoted string
ItemChoices ==
    {Item(<<a>>, FALSE, <<>>) : a \in {"acl", "tags", "tags_all"}}
    \cup {Item(<<"tags", "[", "\"Name\"", "]">>, FALSE, <<>>),
          Item(<<"\"not", " ", "tags\"">>, TRUE, <<>>),
          Item(<<"acl">>, FALSE, <<"#", " ", "tags", " ", "are", " ", "set", " ", "elsewhere">>),
          Item(<<"acl">>, FALSE, <<"#", " ", "as", " ", "for", " ", "tags_all">>)}

\* the ignore_changes expressions source files can hold
ExpressionChoices ==
    {Tuple(items) : items \in UNION {[1..k -> ItemChoices] : k \in 0..MaxItems}}
    \cup {NonLiteral(<<"all">>), NonLiteral(<<"local.ignored">>),
          NonLiteral(<<"concat", "(", "local.ignored", ",", " ", "[", "tags", "]", ")">>)}

BlockChoices ==
    {[type |-> t, resourceType |-> rt, lifecycle |-> l] :
        t \in {"resource", "data"},
        rt \in {TaggedType, TaglessType, OtherType},
        l \in {{}, {[ignore_changes |-> {}]}}
              \cup {{[ignore_changes |-> {e}]} : e \in ExpressionChoices}}

\* cleanupTerraformBlocks reaches a block of a stack's configuration
CleanupBlock ==
    /\ lcBlock # <<>> /\ lcOut = {}
    /\ lcOut' = {ensureLifecycleIgnoresTags(lcBlock)}
    /\ UNCHANGED lcBlock
    /\ UNCHANGED besidesLifecycle

InitLifecycle ==
    /\ lcBlock \in BlockChoices
    /\ lcOut = {}
    /\ TripIdle
    /\ FaultIdle
    /\ PrefixIdle
    /\ SuperplanIdle
    /\ BootstrapIdle
    /\ SummaryIdle
    /\ RunIdle
    /\ TopoIdle
    /\ LockIdle
    /\ HashIdle
    /\ VersionIdle

NextLifecycle == CleanupBlock

\* one block of a stack's configuration on its way into super.tf
SpecLifecycle == InitLifecycle /\ [][NextLifecycle]_vars

(* ------------------- superplan: Run and its artifacts ------------------ *)

\* the steps of Run that can return an error, in order; everything before
\* the output directory is made (account, graph, the loop that pulls and
\* rewrites every stack's state) is the first
RunSteps ==
    <<"pullStates", "mkdirOutput", "mkdirMerged", "writeSuperstate",
      "writeCombinedConfiguration", "collectVariableValues", "writeTFVarsFile",
      "ensureLocalBackend", "newTerraform", "init", "patchModuleResourceLifecycle",
      "relPaths", "plan", "showPlanFile", "writeSummary", "cleanup">>

\* the files and directories under the output directory
Artifacts == {"merged", "plan", "superstate", "summary"}

\* what a step that succeeds leaves under the output directory
created(step) ==
    IF step = "mkdirMerged" THEN {"merged"}
    ELSE IF step = "writeSuperstate" THEN {"superstate"}
    ELSE IF step = "plan" THEN {"plan"}
    ELSE IF step = "writeSummary" THEN {"summary"}
    ELSE {}

\* cleanupSuperplanArtifacts when both removals succeed
cleanupSuperplanArtifacts(files, keep) ==
    IF keep THEN files ELSE files \ {"merged", "plan"}

\* Run is called: the output directory may hold what an earlier run left
SuperplanStart(keep, left) ==
    /\ suStep = 0 /\ suRet = "none"
    /\ suStep' = 1
    /\ suKeep' = keep
    /\ suFiles' = left
    /\ UNCHANGED suRet
    /\ UNCHANGED besidesSuperplan

\* the current step succeeds; after the cleanup Run returns nil
SuperplanStep ==
    /\ suStep \in 1..Len(RunSteps) /\ suRet = "none"
    /\ IF RunSteps[suStep] = "cleanup"
       THEN /\ suFiles' = cleanupSuperplanArtifacts(suFiles, suKeep)
            /\ suRet' = "nil"
            /\ UNCHANGED suStep
       ELSE /\ suFiles' = suFiles \cup created(RunSteps[suStep])
            /\ suStep' = suStep + 1
            /\ UNCHANGED suRet
    /\ UNCHANGED suKeep
    /\ UNCHANGED besidesSuperplan

\* the current step fails and Run returns its error: every step's error is
\* returned where it occurs, and a cleanup that fails has removed nothing
\* or the merged tree only
SuperplanFail ==
    /\ suStep \in 1..Len(RunSteps) /\ suRet = "none"
    /\ ~(RunSteps[suStep] = "cleanup" /\ suKeep)
    /\ suRet' = "error"
    /\ \/ UNCHANGED suFiles
       \/ RunSteps[suStep] = "cleanup" /\ suFiles' = suFiles \ {"merged"}
    /\ UNCHANGED <<suStep, suKeep>>
    /\ UNCHANGED besidesSuperplan

InitSuperplan ==
    /\ suStep = 0 /\ suKeep = FALSE /\ suFiles = {} /\ suRet = "none"
    /\ TripIdle
    /\ FaultIdle
    /\ PrefixIdle
    /\ LifecycleIdle
    /\ BootstrapIdle
    /\ SummaryIdle
    /\ RunIdle
    /\ TopoIdle
    /\ LockIdle
    /\ HashIdle
    /\ VersionIdle

NextSuperplan ==
    \/ \E keep \in BOOLEAN, left \in SUBSET Artifacts : SuperplanStart(keep, left)
    \/ SuperplanStep
    \/ SuperplanFail

\* one call of superplan Run
SpecSuperplan == InitSuperplan /\ [][NextSuperplan]_vars

(* ------------------- bootstrap: Run and backend.tf --------------------- *)

\* the steps of bootstrap Run, in order
BootstrapSteps ==
    <<"accountID", "statStack", "statBackend", "statDisabled", "disable",
      "terraformPath", "newTerraform", "localInit", "localApply", "waitForS3Bucket",
      "restore", "migrate">>

\* the steps that call AWS or terraform and can fail for reasons outside
\* the files of the stack
CanFail ==
    {"accountID", "newTerraform", "localInit", "localApply", "waitForS3Bucket",
     "migrate"}

\* the Options of a call: whether AccountID and TerraformPath are set
BootstrapOptions == [AccountID : BOOLEAN, TerraformPath : BOOLEAN]

\* what can exist under <root>/core-services: the bootstrap stack's
\* directory, its backend.tf and its backend.tf.disabled
BootstrapFiles == {"stack", "backend", "disabled"}

\* os.Rename(from, to) in the stack's directory: fails when from is missing
renameOk(files, from) == from \in files

rename(files, from, to) == (files \ {from}) \cup {to}

deferredRestoreSkipped(files, registered, restored) == files

\* the deferred function of Run: registered once the backend is disabled,
\* it renames backend.tf.disabled back unless that was already done
deferredRestore(files, registered, restored) ==
    IF registered /\ ~restored /\ renameOk(files, "disabled")
    THEN rename(files, "disabled", "backend")
    ELSE files

\* Run is called on a root directory
BootstrapStart(files, opts) ==
    /\ bsStep = 0 /\ bsRet = "none"
    /\ bsStep' = 1
    /\ bsOpts' = opts
    /\ bsFiles' = files
    /\ bsAtCall' = files
    /\ UNCHANGED <<bsRet, bsDisabled, bsRestored>>
    /\ UNCHANGED besidesBootstrap

\* the step's own check of the options or of the files fails
checkFails(step, opts, files) ==
    \/ step = "terraformPath" /\ ~opts.TerraformPath
    \/ step = "statStack" /\ "stack" \notin files
    \/ step = "statBackend" /\ "backend" \notin files
    \/ step = "statDisabled" /\ "disabled" \in files
    \/ step = "disable" /\ ~renameOk(files, "backend")
    \/ step = "restore" /\ ~renameOk(files, "disabled")

\* the current step succeeds; after the migration Run returns nil
BootstrapStep ==
    /\ bsStep \in 1..Len(BootstrapSteps) /\ bsRet = "none"
    /\ ~checkFails(BootstrapSteps[bsStep], bsOpts, bsFiles)
    /\ LET step == BootstrapSteps[bsStep]
           files == IF step = "disable" THEN rename(bsFiles, "backend", "disabled")
                    ELSE IF step = "restore" THEN rename(bsFiles, "disabled", "backend")
                    ELSE bsFiles
           disabled == bsDisabled \/ step = "disable"
           restored == bsRestored \/ step = "restore"
       IN /\ bsDisabled' = disabled
          /\ bsRestored' = restored
          /\ IF step = "migrate"
             THEN /\ bsRet' = "nil"
                  /\ bsFiles' = deferredRestore(files, disabled, restored)
                  /\ UNCHANGED bsStep
             ELSE /\ bsFiles' = files
                  /\ bsStep' = bsStep + 1
                  /\ UNCHANGED bsRet
    /\ UNCHANGED <<bsAtCall, bsOpts>>
    /\ UNCHANGED besidesBootstrap

\* the current step fails: Run returns its error and the deferred function
\* runs
BootstrapFail ==
    /\ bsStep \in 1..Len(BootstrapSteps) /\ bsRet = "none"
    /\ \/ BootstrapSteps[bsStep] \in CanFail \ {"accountID"}
       \/ BootstrapSteps[bsStep] = "accountID" /\ ~bsOpts.AccountID
       \/ checkFails(BootstrapSteps[bsStep], bsOpts, bsFiles)
    /\ bsRet' = "error"
    /\ bsFiles' = deferredRestore(bsFiles, bsDisabled, bsRestored)
    /\ UNCHANGED <<bsStep, bsDisabled, bsRestored, bsAtCall, bsOpts>>
    /\ UNCHANGED besidesBootstrap

InitBootstrap ==
    /\ BootstrapIdle
    /\ SummaryIdle
    /\ TripIdle
    /\ FaultIdle
    /\ PrefixIdle
    /\ LifecycleIdle
    /\ SuperplanIdle
    /\ RunIdle
    /\ TopoIdle
    /\ LockIdle
    /\ HashIdle
    /\ VersionIdle

NextBootstrap ==
    \/ \E files \in SUBSET BootstrapFiles, opts \in BootstrapOptions :
          BootstrapStart(files, opts)
    \/ BootstrapStep
    \/ BootstrapFail

\* one call of bootstrap Run
SpecBootstrap == InitBootstrap /\ [][NextBootstrap]_vars

(* ------------------- superplan: summary attribution -------------------- *)

\* symbols that are not letters, digits or '_'
Punctuation == {"-", ".", "/"}

\* words that begin with a digit
DigitWords == {"1"}

\* sanitizeIdentifier: every rune that is not a letter, a digit or '_'
\* becomes '_', and a leading digit gets a '_' in front
sanitizeIdentifier(name) ==
    LET result == [i \in 1..Len(name) |->
                      IF name[i] \in Punctuation THEN "_" ELSE name[i]]
    IN IF result = <<>> THEN result
       ELSE IF result[1] \in DigitWords THEN <<"_">> \o result
       ELSE result

\* the stack directories below the root, as <<parent, base name>>
StackDirs ==
    {<<"a", <<"p">>>>, <<"b", <<"p">>>>, <<"a", <<"p", "-", "x">>>>,
     <<"a", <<"aws">>>>, <<"a", <<"1", "p">>>>}

\* Run, lines 180-184: the prefix of a stack is sanitizeIdentifier of
\* filepath.Base of its directory
prefixOf(dir) == sanitizeIdentifier(dir[2])

\* Run, lines 186-189: prefixToStack[stackName] = info.RelativePath, in the
\* order of TopoSort; of the stacks with one prefix the last one stays
prefixToStackChoices(dirs) ==
    LET names == {prefixOf(d) : d \in dirs}
    IN {m \in [names -> dirs] : \A n \in names : prefixOf(m[n]) = n}

\* the separators of splitAddressTokens
TokenSeparators == {".", "[", "]", "\""}

\* splitAddressTokens
RECURSIVE tokensFrom(_, _, _)
tokensFrom(s, current, tokens) ==
    IF s = <<>> THEN (IF current = <<>> THEN tokens ELSE Append(tokens, current))
    ELSE IF s[1] \in TokenSeparators
    THEN tokensFrom(Tail(s), <<>>, IF current = <<>> THEN tokens ELSE Append(tokens, current))
    ELSE tokensFrom(Tail(s), Append(current, s[1]), tokens)

splitAddressTokens(address) == tokensFrom(address, <<>>, <<>>)

\* identifyStackFromAddress, the test of one part against one prefix
partMatches(part, prefix) == HasPrefix(part, prefix \o <<"_">>) \/ part = prefix

\* identifyStackFromAddress: the stacks it can return; the range over
\* prefixToStack yields the prefixes in any order, so every prefix that
\* matches the first part with a match can be the one found; "" when no
\* part matches
identifyStackFromAddress(address, prefixToStack) ==
    IF address = <<>> THEN {""}
    ELSE LET parts == splitAddressTokens(address)
             hits == {i \in 1..Len(parts) :
                         \E p \in DOMAIN prefixToStack : partMatches(parts[i], p)}
         IN IF hits = {} THEN {""}
            ELSE LET first == CHOOSE i \in hits : \A j \in hits : i <= j
                 IN {prefixToStack[p] :
                        p \in {q \in DOMAIN prefixToStack : partMatches(parts[first], q)}}

\* the resource types and the names of resources and modules in the stacks
ResourceTypes == {<<"aws", "_", "s3">>, <<"null", "_", "resource">>}

BlockNames == {<<"n">>, <<"x", "_", "n">>}

\* the address the plan gives a resource of a stack after collectRenameRules
\* renamed it with the stack's prefix: a resource of the stack itself, one
\* with an instance key, or one inside a module call of the stack
planAddress(kind, prefix, type, name) ==
    IF kind = "resource" THEN type \o <<".">> \o prefixSegment(prefix, name)
    ELSE IF kind = "indexed"
    THEN type \o <<".">> \o prefixSegment(prefix, name) \o <<"[", "\"", "k", "\"", "]">>
    ELSE <<"module", ".">> \o prefixSegment(prefix, name) \o <<".">> \o type \o <<".", "n">>

\* Run up to the plan: the stacks are given their prefixes and the plan
\* holds a change of one resource of one of them
SummaryPrepare(dirs, origin, kind, type, name) ==
    /\ smAddress = <<>> /\ origin \in dirs
    /\ smStacks' = dirs
    /\ smOrigin' = origin
    /\ smAddress' = planAddress(kind, prefixOf(origin), type, name)
    /\ smMap' \in prefixToStackChoices(dirs)
    /\ UNCHANGED smAttr
    /\ UNCHANGED besidesSummary

\* buildSuperplanSummary attributes the resource change to a stack
SummaryAttribute ==
    /\ smAddress # <<>> /\ Cardinality(smAttr) < MaxSummaries
    /\ \E stack \in identifyStackFromAddress(smAddress, smMap) :
          /\ stack \notin smAttr
          /\ smAttr' = smAttr \cup {stack}
    /\ UNCHANGED <<smStacks, smOrigin, smAddress, smMap>>
    /\ UNCHANGED besidesSummary

InitSummary ==
    /\ SummaryIdle
    /\ TripIdle
    /\ FaultIdle
    /\ PrefixIdle
    /\ LifecycleIdle
    /\ SuperplanIdle
    /\ BootstrapIdle
    /\ RunIdle
    /\ TopoIdle
    /\ LockIdle
    /\ HashIdle
    /\ VersionIdle

NextSummary ==
    \/ \E dirs \in SUBSET StackDirs, origin \in StackDirs,
          kind \in {"resource", "indexed", "module"},
          type \in ResourceTypes, name \in BlockNames :
          SummaryPrepare(dirs, origin, kind, type, name)
    \/ SummaryAttribute

\* the summaries of runs over the same stacks and the same plan
SpecSummary == InitSummary /\ [][NextSummary]_vars

(* ------------------- lock: Acquire on a store that denies deletes ------ *)

\* DeleteObject of a stale lock returns an error (the credentials may not
\* delete, the object is under a retention hold): the error is dropped and
\* the loop continues with the object still in the store
DeleteStaleDenied(w) ==
    /\ storeDenies
    /\ lpc[w] = "evict"
    /\ lpc' = [lpc EXCEPT ![w] = IF ~lforce[w] /\ lwait[w] THEN "settle" ELSE "put"]
    /\ evicted' = [evicted EXCEPT ![w] = TRUE]
    /\ lastRelease' = {}
    /\ UNCHANGED <<obj, deleted, now, locked, lwait, lforce, stamp, meta, lres, lctx,
                   acquires, relRes>>
    /\ UNCHANGED <<runVars, planVars, topoVars, hashVars, versionVars, restVars>>

\* DeleteObject of a stale lock, as the store answers it
DeleteStaleAnswered(w) ==
    \/ ~storeDenies /\ DeleteStale(w)
    \/ DeleteStaleDenied(w)

\* one request of the retry loop of w's Acquire and the statements up to the
\* next request or the return
AcquireLoop(w) ==
    \/ PutObject(w)
    \/ HeadObject(w)
    \/ CheckAge(w)
    \/ DeleteStaleAnswered(w)

\* no lock, or a lock another actor (owner 0) put at time 0; the store
\* carries out deletes or denies them
InitFault ==
    /\ obj \in {{}, {[owner |-> 0, ts |-> 0]}}
    /\ storeDenies \in BOOLEAN
    /\ now = 0
    /\ lpc = [w \in Workers |-> "idle"]
    /\ locked = [w \in Workers |-> FALSE]
    /\ lwait = [w \in Workers |-> FALSE]
    /\ lforce = [w \in Workers |-> FALSE]
    /\ stamp = [w \in Workers |-> 0]
    /\ meta = [w \in Workers |-> {}]
    /\ lres = [w \in Workers |-> NoResult]
    /\ lctx = [w \in Workers |-> FALSE]
    /\ acquires = [w \in Workers |-> 0]
    /\ deleted = FALSE
    /\ relRes = {}
    /\ lastRelease = {}
    /\ evicted = [w \in Workers |-> FALSE]
    /\ RunIdle
    /\ TopoIdle
    /\ HashIdle
    /\ VersionIdle
    /\ TripIdle
    /\ PrefixIdle
    /\ LifecycleIdle
    /\ SuperplanIdle
    /\ BootstrapIdle
    /\ SummaryIdle

NextFault ==
    \/ \E w \in Workers : AcquireCall(w, FALSE, FALSE)
    \/ \E w \in Workers : AcquireLoop(w)
    \/ Tick

\* Acquire calls with wait=false; every request a call issues is answered
\* and the goroutine goes on to its next statement
SpecFault ==
    /\ InitFault
    /\ [][NextFault]_vars
    /\ \A w \in Workers : WF_vars(AcquireLoop(w))

(* ------------------------ executor: claims ----------------------------- *)
\* the worker of s passed progress.Start: the operation on s was started
started(s) == progress[s] \notin {"pending", "waiting"}

\* worker goroutines that have not returned
liveWorkers == {s \in Stacks : wpc[s] \in {"select", "running"}}

\* C1: the operation on a stack starts only after the operation on each of
\* its dependencies finished successfully, and the workers of a layer run
\* only after every worker of the earlier layers has terminated
C1_DependenciesBeforeDependents ==
    /\ \A s \in Stacks : started(s) => SeqToSet(Dependencies(s)) \subseteq okDone
    /\ liveWorkers # {} => (rpc = "layer" /\ liveWorkers \subseteq layer)

failedStacks == {s \in Stacks : progress[s] = "failed"}

\* C4: once the operation on a stack has failed, no stack outside the layers
\* started so far is ever started (the run never goes back to the loop head),
\* no dependent of the failed stack is started, and RunAll returns a non-nil
\* error with the failed stack in summary.Failed
C4_FailureStopsRun ==
    failedStacks # {} =>
        /\ rpc # "loop"
        /\ failedStacks \subseteq layer
        /\ \A t \in Stacks : started(t) => t \in processed \cup layer
        /\ \A s \in failedStacks, t \in Stacks :
              s \in SeqToSet(Dependencies(t)) => ~started(t)
        /\ rpc = "done" => (retErr = "worker" /\ failedStacks \subseteq summary.Failed)

\* C4 witness: a stack of the second layer failed while another stack depends
\* on it, and RunAll has returned
C4_Witness ==
    /\ rpc = "done"
    /\ retErr = "worker"
    /\ processed # {}
    /\ \E s \in failedStacks, t \in Stacks : s \in SeqToSet(Dependencies(t))

C7_SkipOnDestroyHonoured ==
    op = "destroy" => \A s \in Stacks : graph[s].SkipDestroy => calls[s] = <<>>

\* C8: after the first worker error of a layer, no worker still at the select
\* starts its stack operation
C8_NoStartAfterError ==
    [][\A s \in Stacks : (firstErr # {} /\ wpc[s] = "select") => wpc'[s] # "running"]_vars

\* the fingerprint of stack s computed now by plan-all and by PlanStack
fingerprintAll(s) == Sha256(<<Sha256(content[s])>> \o depHashes(s))
fingerprintSingle(s) == Sha256(content[s])

\* the cache-hit condition of the claim, for the fingerprint fp
cacheHit(s, fp) ==
    /\ options.UseCache
    /\ s \notin options.ForceStacks
    /\ diskHash[s] = fp
    /\ diskPlan[s] # Nil

\* the worker of s finishes its plan in this step
planAllStep(s) == op = "plan" /\ wpc[s] = "running" /\ wpc'[s] = "exited"
\* this step is a PlanStack call on s
planSingleStep(s) == planCalls' = planCalls + 1 /\ single'.stack = s

RECURSIVE dependsOnClosure(_, _)
dependsOnClosure(S, fuel) ==
    LET next == S \cup UNION {SeqToSet(tg[n]) : n \in S}
    IN IF fuel = 0 \/ next = S THEN S ELSE dependsOnClosure(next, fuel - 1)

onCycle(n) == n \in dependsOnClosure(SeqToSet(tg[n]), NNodes)

hasCycle == \E n \in Nodes : onCycle(n)

\* position of node n in the returned order
position(n) == CHOOSE i \in 1..Len(order) : order[i] = n

\* C3: when TopoSort has returned, it returned an error exactly when the
\* graph has a cycle; with the error it returned no ordering and the error
\* names a node on a cycle; without it the ordering holds every node exactly
\* once and every dependency of a node stands before the node
C3_TopoSortOrderOrCycle ==
    tpc = "done" =>
        /\ (terr # {}) <=> hasCycle
        /\ terr # {} => (order = <<>> /\ \A n \in terr : onCycle(n))
        /\ terr = {} =>
              /\ Len(order) = NNodes
              /\ SeqToSet(order) = Nodes
              /\ \A n \in Nodes : \A d \in SeqToSet(tg[n]) : position(d) < position(n)

\* C3 witness: TopoSort returned an ordering of a graph in which some node
\* has two dependencies and some node is both a dependency and a dependent
C3_Witness ==
    /\ tpc = "done"
    /\ terr = {}
    /\ \E n \in Nodes : Len(tg[n]) >= 2
    /\ \E n \in Nodes : tg[n] # <<>> /\ \E m \in Nodes : n \in SeqToSet(tg[m])

(* ------------------------ lock: claims --------------------------------- *)
\* workers that have called Acquire
contenders == {w \in Workers : acquires[w] > 0}

\* every contender called Acquire once with wait=false and the call returned
contendersReturned ==
    \A w \in contenders : acquires[w] = 1 /\ lpc[w] = "idle" /\ ~lwait[w]

holders == {w \in Workers : locked[w]}

\* C9: at most one worker holds the lock at any time
C9_AtMostOneHolder == Cardinality(holders) <= 1

\* C10: an Acquire with wait=true whose context was not cancelled returns
\* only by acquiring the lock: it never returns a LockedError or another error
C10_WaitingAcquireOnlySucceeds ==
    \A w \in Workers :
        (acquires[w] > 0 /\ lpc[w] = "idle" /\ lwait[w] /\ ~lctx[w]) => lres[w] = Acquired

\* the lock object worker w writes in its running Acquire
ownLock(w) == {[owner |-> w, ts |-> stamp[w]]}

\* this step is the first PutObject of an Acquire by v that was called after
\* the Release of another worker, with no store request in between
putAfterRelease(v) ==
    lastRelease # {} /\ v \notin lastRelease /\ lpc[v] = "put" /\ lpc'[v] # "put"

\* C11: when calls do not overlap, after a Release that deleted the lock the
\* object does not exist (until the next store request), and the Acquire of
\* another owner that follows it returns nil, holding a lock object of its own
C11_AcquireAfterRelease ==
    /\ [](lastRelease # {} => obj = {})
    /\ [][\A v \in Workers :
            putAfterRelease(v) =>
                (lres'[v] = Acquired /\ lpc'[v] = "idle" /\ locked'[v] /\ obj' = ownLock(v))]_vars

\* C11 witness: one worker acquired and released, another then acquired, with
\* no time passed (so nothing was evicted)
C11_Witness ==
    /\ now = 0
    /\ deleted
    /\ \E w, v \in Workers :
          /\ w # v
          /\ lres[w] = Acquired /\ ~locked[w]
          /\ lres[v] = Acquired /\ locked[v] /\ lpc[v] = "idle"
          /\ obj = {[owner |-> v, ts |-> 0]}

\* this step is a Release call (one that repeats the last no-op Release
\* changes nothing at all)
releaseStep == relRes' # {} /\ relRes' # relRes

\* C12: a Release on an instance that does not hold the lock (it never
\* acquired, or it released already) issues no store request and changes
\* nothing; a Release on a holding instance deletes the object
C12_ReleaseOnlyWhenHeld ==
    [][releaseStep =>
         \A r \in relRes' :
             /\ ~locked[r.by] =>
                   (r.did = "noop" /\ obj' = obj /\ deleted' = deleted /\ locked' = locked)
             /\ locked[r.by] =>
                   (r.did = "deleted" /\ obj' = {} /\ ~locked'[r.by])]_vars

\* C12 witness: a second Release after a successful one did nothing while
\* another worker holds the lock
C12_Witness ==
    \E w, v \in Workers :
        /\ w # v
        /\ relRes = {[by |-> w, did |-> "noop"]}
        /\ lres[w] = Acquired /\ ~locked[w]
        /\ locked[v] /\ obj # {}

\* the Acquire of w returns in this step
acquireReturns(w) == lpc[w] # "idle" /\ lpc'[w] = "idle"

\* what the stale branch does, up to the return of the Acquire that took it
staleBranch(w) ==
    /\ (lpc[w] = "age" /\ isStale(w) /\ lpc'[w] # "age") => lpc'[w] = "evict"
    /\ (lpc[w] = "evict" /\ lpc'[w] # "evict") =>
          (obj' = {} /\ lpc'[w] \in {"settle", "put"})

modifies(p) == p \in DOMAIN fs /\ fs'[p] # fs[p]

\* file p is a .tf or .tfvars file outside .terraform, or a listed var file
countedFile(p) ==
    \/ p \in DirPaths /\ Kind(p) \in {".tf", ".tfvars"}
    \/ Kind(p) = "var" /\ p \in SeqToSet(flist)

\* all orderings of a list
orderings(files) ==
    {[i \in 1..Len(files) |-> files[pi[i]]] : pi \in Permutations(1..Len(files))}

\* C15: overwriting a byte of a file counted by the fingerprint changes the
\* fingerprint, and when the stored fingerprint made a plan of the stack a
\* cache hit before the change, neither PlanStack nor plan-all has a cache
\* hit after it
C15_ModifiedByteChangesFingerprint ==
    [][\A p \in DOMAIN fs :
         (modifies(p) /\ countedFile(p)) =>
            /\ ComputeHashFiles(fs', flist) # ComputeHashFiles(fs, flist)
            /\ (planSingleCached(1) \/ planStackCached(1)) =>
                  (~planSingleCached(1)' /\ ~planStackCached(1)')]_vars

\* C15 witness: PlanStack stored a fingerprint, the second byte of a var file
\* was overwritten, and the next PlanStack invoked the Runner again
C15_Witness ==
    /\ VarFilePath \in SeqToSet(flist)
    /\ fs[VarFilePath] = << <<"byte", 0>>, <<"byte", 1>> >>
    /\ edits = 1
    /\ planCalls = 2
    /\ calls[1] = <<"PlanWithOutput", "PlanWithOutput">>
    /\ single = [stack |-> 1, status |-> "executed", err |-> FALSE]
    /\ diskHash[1] = ComputeHashFiles(fs, flist)

\* C16: ComputeHash returns the same fingerprint for every ordering of the
\* list it is given
C16_OrderDoesNotMatter ==
    \A q \in orderings(flist) : ComputeHashFiles(fs, q) = ComputeHashFiles(fs, flist)

\* C16 witness: the list is not in sorted order, holds one file twice, and
\* two neighbours in it differ in content
C16_Witness ==
    /\ flist # sortStrings(flist)
    /\ \E i, j \in 1..Len(flist) : i # j /\ flist[i] = flist[j]
    /\ \E i \in 1..(Len(flist) - 1) : fs[flist[i]] # fs[flist[i + 1]]

(* ------------------------ versioning: claims --------------------------- *)
\* this step is a ResolveTerraformBinary call
resolveStep == resolves' = resolves + 1

\* the versions the constraint of stack s admits, as the specification
\* states it: required_version, or >= 1.0.0 without one
constraintOf(s) ==
    IF required[s] = {} THEN {v \in Versions : v >= 1}
    ELSE CHOOSE c \in required[s] : TRUE

satisfiesAll(v) == \A s \in RStacks : v \in constraintOf(s)

\* C17: a call with a pinned version returns a result only if the pin
\* satisfies the constraint of every stack; when the pin violates a
\* constraint the call returns an error, installs nothing and leaves the
\* lock file as it was
C17_PinnedVersionMustSatisfy ==
    [][resolveStep =>
         \A v \in resolved'.opts.PinnedVersion :
            /\ resolved'.kind = "result" => satisfiesAll(v)
            /\ ~satisfiesAll(v) =>
                  /\ resolved'.kind = "error"
                  /\ resolved'.installed = {}
                  /\ cacheVersions' = cacheVersions
                  /\ ~resolved'.wrote
                  /\ lockFile' = lockFile]_vars

\* C17 witness: a pin that stack b (no required_version) admits and stack a
\* does not was rejected, although a compatible system binary was there and
\* no flag was set
C17_Witness ==
    /\ resolves = 1
    /\ resolved.kind = "error"
    /\ \E v \in resolved.opts.PinnedVersion : v \in constraintOf("b") /\ v \notin constraintOf("a")
    /\ ~resolved.opts.ForceInstall /\ ~resolved.opts.UseSystemOnly
    /\ ~resolved.opts.DisableInstall
    /\ \E v \in systemVersion : satisfiesAll(v)

\* the version recorded in a parseable lock file
lockedVersion == UNION {NewVersion(d.Version) : d \in {x \in lockFile : x.ok}}

\* C18 as stated: a call without force-install (and without system-only or a
\* pin) that finds a lock file whose version satisfies all constraints
\* returns the system binary when the system version equals the locked
\* version, otherwise the cached install of the locked version when there is
\* one, and installs only when neither is there
C18_LockedVersionReused ==
    [][(/\ resolveStep
        /\ ~resolved'.opts.ForceInstall
        /\ ~resolved'.opts.UseSystemOnly
        /\ resolved'.opts.PinnedVersion = {}) =>
         \A lv \in lockedVersion :
            satisfiesAll(lv) =>
               /\ systemVersion = {lv} =>
                     (resolved'.kind = "result" /\ resolved'.source = "system"
                      /\ resolved'.version = {lv})
               /\ (systemVersion # {lv} /\ lv \in cacheVersions) =>
                     (resolved'.kind = "result" /\ resolved'.source = "cached"
                      /\ resolved'.version = {lv})
               /\ resolved'.installed # {} =>
                     (systemVersion # {lv} /\ lv \notin cacheVersions)]_vars

\* every installer call, the releases index and the lock file write succeed
AllOk == [inst1 |-> "ok", inst2 |-> "ok", fetch |-> "ok", write |-> "ok"]

\* the call with options o installs a binary when installing is allowed
wouldInstall(o) ==
    ResolveTerraformBinary([o EXCEPT !.DisableInstall = FALSE], AllOk).installed # {}

\* C19: a call with disable-install set installs nothing, and returns an
\* error whenever the same call without the flag installs a binary
C19_DisableInstallNeverInstalls ==
    [][(resolveStep /\ resolved'.opts.DisableInstall) =>
         /\ resolved'.installed = {}
         /\ cacheVersions' = cacheVersions
         /\ resolved'.kind = "result" => resolved'.source \in {"system", "cached"}
         /\ wouldInstall(resolved'.opts) => resolved'.kind = "error"]_vars

\* C19 witness: with the flag set and no other, a compatible locked version
\* that is neither cached nor the system version made the call fail
C19_Witness ==
    /\ resolves = 1
    /\ resolved.opts.DisableInstall /\ ~resolved.opts.ForceInstall
    /\ ~resolved.opts.UseSystemOnly /\ resolved.opts.PinnedVersion = {}
    /\ resolved.kind = "error"
    /\ \E lv \in lockedVersion :
          satisfiesAll(lv) /\ lv \notin cacheVersions /\ systemVersion # {lv}
    /\ \E v \in systemVersion : satisfiesAll(v)

\* complete documents: the previous content and what each writer marshalled
completeDocs == {DocOf(w) : w \in {0} \cup Writers}

\* some bytes of the file at the lock-file path were written by writer w
wroteIntoPath(w) ==
    \E c \in pathContent : \E j \in 1..Len(c) : c[j] \in {DocOf(w)[k] : k \in 1..DocChunks}

\* C20: whenever the lock-file path is read, the bytes read are a complete
\* document, the previous one or one a WriteLockFile call marshalled; and a
\* WriteLockFile call that returned an error has put nothing into the file
C20_LockFileReplacedAtomically ==
    /\ pathContent \subseteq completeDocs
    /\ seen \subseteq completeDocs
    /\ \A w \in Writers : wret[w] = "error" => ~wroteIntoPath(w)


(* ----------------------- versioning: round trip ------------------------ *)

\* the entries of a slice are in strictly ascending order
strictlySorted(items) ==
    \A i \in 1..Len(items) - 1 : stringLess(items[i], items[i + 1])

\* C21: when the lock document handed to WriteLockFile has a non-empty
\* version, what ReadLockFile returns from the written file is normalize of
\* that document: the same version, flag and binary path, and a detected_from
\* that is sorted without duplicates and has no entry that is empty, "." or
\* begins with "./"
C21_ReadBackIsNormalized ==
    \A r \in tripRead : \A l \in r.lock :
        /\ tripDoc.Version # <<>>
        /\ l = normalize(tripDoc)
        /\ l.Version = tripDoc.Version
        /\ l.UsedSystemBinary = tripDoc.UsedSystemBinary
        /\ l.BinaryPath = tripDoc.BinaryPath
        /\ strictlySorted(l.DetectedFrom.items)
        /\ \A i \in 1..Len(l.DetectedFrom.items) :
              LET e == l.DetectedFrom.items[i]
              IN e # <<>> /\ e # <<".">> /\ ~HasPrefix(e, <<".", "/">>)

\* C21 witness: the document with detected_from ["./b", "a"] and a binary
\* path was written and read back with detected_from ["a", "b"]
C21_Witness ==
    /\ tripDoc # <<>>
    /\ tripDoc.DetectedFrom.items = <<<<".", "/", "b">>, <<"a">>>>
    /\ tripDoc.BinaryPath # <<>>
    /\ \E r \in tripRead : \E l \in r.lock :
          l.DetectedFrom.items = <<<<"a">>, <<"b">>>>


(* ----------------------- superplan: prefixing -------------------------- *)

\* the strings a state holds in the members the rewrite touches
resourceStrings(r) ==
    r.name \cup r.address \cup r.module
    \cup UNION {SeqToSet(d) : d \in r.depends_on}
    \cup UNION {UNION {UNION {SeqToSet(d) : d \in insts[i].dependencies \cup insts[i].deposed} :
                           i \in 1..Len(insts)} : insts \in r.instances}

stateStrings(st) ==
    UNION {UNION {resourceStrings(rs[i]) : i \in 1..Len(rs)} : rs \in st.resources}
    \cup UNION {DOMAIN o : o \in st.outputs}
    \cup UNION {UNION {UNION {SeqToSet(d) : d \in o[k].depends_on} : k \in DOMAIN o} :
                    o \in st.outputs}

\* some dot-separated segment of s carries the prefix twice
prefixedTwice(s, prefix) ==
    \E i \in 1..Len(Split(s, ".")) :
        HasPrefix(Split(s, ".")[i], prefix \o <<"_">> \o prefix \o <<"_">>)

\* C22: rewriting a state that was already rewritten with the same prefix
\* changes nothing, and no name, address, module path, dependency or output
\* key of a rewritten state carries the prefix twice
C22_RewriteIdempotent ==
    [][spRewrites >= 1 =>
          /\ spState' = spState
          /\ \A st \in spState' : \A s \in stateStrings(st) :
                ~prefixedTwice(s, spPrefix)]_vars

\* C22 witness: a resource whose name already began with the prefix, in a
\* module whose path had a prefixed first segment, was rewritten twice
C22_Witness ==
    /\ spRewrites = 2
    /\ spPrefix = <<"p">>
    /\ \E rs \in spPulled.resources :
          /\ rs[1].name = {<<"p", "_", "x">>}
          /\ rs[1].module = {Join(<<<<"module">>, <<"p", "_", "x">>, <<"module">>, <<"x">>>>, ".")}
          /\ rs[1].address = {Join(<<<<"x">>, <<"x">>>>, ".")}
    /\ \E st \in spState : \E rs \in st.resources :
          rs[1].address = {Join(<<<<"x">>, <<"p", "_", "x">>>>, ".")}

\* the segment rewriteAddress is to prefix: the one after the first "module"
\* that has a segment after it; without one, the one after the resource type,
\* which is the second segment when the first is "data"; 0 when the address
\* has no such segment
targetSegment(parts) ==
    LET modules == {i \in 1..Len(parts) - 1 : parts[i] = <<"module">>}
        typeIdx == IF parts[1] = <<"data">> THEN 2 ELSE 1
    IN IF modules # {} THEN 1 + CHOOSE i \in modules : \A j \in modules : i <= j
       ELSE IF typeIdx + 1 <= Len(parts) THEN typeIdx + 1
       ELSE 0

\* the address before and after differ in the target segment alone, which
\* begins with the prefix afterwards
onlyTargetPrefixed(before, after, prefix) ==
    LET old == Split(before, ".")
        new == Split(after, ".")
        t == targetSegment(old)
    IN /\ Len(new) = Len(old)
       /\ \A i \in 1..Len(old) : i # t => new[i] = old[i]
       /\ t # 0 =>
             /\ HasPrefix(new[t], prefix \o <<"_">>)
             /\ new[t] \in {old[t], prefix \o <<"_">> \o old[t]}
             /\ new[t] = old[t] => HasPrefix(old[t], prefix \o <<"_">>)

\* C23: the rewritten address of a resource differs from the pulled one in
\* one segment only, which then carries the prefix: the segment after the
\* first "module" when the address has one (the leaf name is left as it
\* was), otherwise the leaf name after the resource type, an initial "data"
\* being skipped
C23_OneSegmentPrefixed ==
    spRewrites >= 1 =>
        \A st \in spState : \A old \in spPulled.resources : \A new \in st.resources :
            \A i \in 1..Len(old) :
                \A before \in old[i].address : \A after \in new[i].address :
                    before # <<>> => onlyTargetPrefixed(before, after, spPrefix)

\* C23 witness: module.x.x.x became module.p_x.x.x and, in another state,
\* data.x.x became data.x.p_x
C23_Witness ==
    /\ spRewrites = 1
    /\ spPrefix = <<"p">>
    /\ \E rs \in spPulled.resources :
          rs[1].address = {Join(<<<<"module">>, <<"x">>, <<"x">>, <<"x">>>>, ".")}
    /\ \E st \in spState : \E rs \in st.resources :
          rs[1].address = {Join(<<<<"module">>, <<"p", "_", "x">>, <<"x">>, <<"x">>>>, ".")}


(* ----------------------- superplan: lifecycle -------------------------- *)

\* the expression refers to attr: attr is a field of the text of the
\* expression outside its comments and quoted strings
refersTo(e, attr) ==
    IF e.kind = "tuple"
    THEN \E i \in 1..Len(e.items) :
            ~e.items[i].quoted /\ containsIgnoreAttr(e.items[i].src, attr)
    ELSE containsIgnoreAttr(e.src, attr)

\* C24 (violated): every aws_ resource block that cleanupTerraformBlocks has
\* handled is of a tagless type or has a lifecycle block whose
\* ignore_changes refers to both tags and tags_all, whatever the expression
\* was before
C24_AwsResourcesIgnoreTags ==
    \A b \in lcOut :
        (b.type = "resource" /\ HasPrefix(b.resourceType, <<"aws", "_">>)) =>
            \/ shouldSkipTagLifecycle(b.resourceType)
            \/ \E l \in b.lifecycle : \E e \in l.ignore_changes :
                  refersTo(e, "tags") /\ refersTo(e, "tags_all")


(* ----------------------- superplan: cleanup ---------------------------- *)

\* position of a step in Run
stepIndex(name) == CHOOSE i \in 1..Len(RunSteps) : RunSteps[i] = name

\* C25 (violated): when Run has returned, nil or an error, after it made the
\* merged workspace and artifact retention was not requested, the merged
\* tree and the plan file do not exist, and the superstate file it wrote is
\* still there
C25_ArtifactsRemovedOnEveryReturn ==
    (suRet # "none" /\ ~suKeep /\ suStep > stepIndex("mkdirMerged")) =>
        /\ "merged" \notin suFiles
        /\ "plan" \notin suFiles
        /\ suStep > stepIndex("writeSuperstate") => "superstate" \in suFiles


(* ----------------------- bootstrap: backend.tf ------------------------- *)

C27_DependentsDestroyedFirst ==
    op = "destroy" =>
        \A s \in Stacks : started(s) =>
            \A t \in Stacks : s \in SeqToSet(Dependencies(t)) => t \in okDone


(* ----------------------- graph: independent nodes ---------------------- *)

\* C28 (violated): in the ordering TopoSort returns, the nodes without
\* dependencies appear in ascending order of their paths, whichever order
\* the range over the graph map yields its keys in
C28_IndependentNodesAscending ==
    (tpc = "done" /\ terr = {}) =>
        \A i, j \in 1..Len(order) :
            (i < j /\ tg[order[i]] = <<>> /\ tg[order[j]] = <<>>) => order[i] < order[j]

(* ----------------------- executor: nil error --------------------------- *)

\* C30 (violated): when RunAll has returned a nil error, the operation on
\* every stack of the graph has run to completion, and the executed, cached
\* and skipped counts of the summary add up to the number of stacks, also
\* when the caller's context was cancelled during the run
C30_NilErrorCountsEveryStack ==
    (rpc = "done" /\ retErr = "nil") =>
        /\ okDone = Stacks
        /\ summary.Executed + summary.Cached + summary.Skipped = NStacks


(* ----------------------- superplan: attribution ------------------------ *)

\* C29 (violated): the resource change is attributed to the stack whose
\* prefix was injected into its address, and to the same stack in every
\* summary built for that address
C29_AttributedToOriginStack ==
    /\ \A stack \in smAttr : stack = smOrigin
    /\ Cardinality(smAttr) <= 1


(* ----------------------- cache: plan file and fingerprint -------------- *)

\* C31 (violated): a PlanStack that reports cached finds on disk the plan
\* file a plan of the present inputs wrote, and at every moment a stored
\* fingerprint describes the plan file stored beside it
C31_CachedPlanIsOfCurrentInputs ==
    [][\A s \in Stacks :
         /\ (planSingleStep(s) /\ single'.status = "cached") =>
               diskPlan[s] = ComputeHash(content[s])
         /\ (diskHash'[s] # Nil /\ diskPlan'[s] # Nil) => diskHash'[s] = diskPlan'[s]]_vars


(* ----------------------- executor: dependency fingerprints ------------- *)

\* C32 (violated): when a plan-all worker composes the fingerprint of a
\* stack, planHashes holds the fingerprint of every direct dependency, so
\* the fingerprint of each dependency is part of what is hashed
C32_DependencyHashesRecorded ==
    [][\A s \in Stacks :
         planAllStep(s) =>
            /\ \A d \in SeqToSet(Dependencies(s)) : planHashes[d] # Nil
            /\ Len(depHashes(s)) = Len(Dependencies(s))]_vars


(* ----------------------- lock: Release and foreign locks --------------- *)

\* C33 (violated): a Release that issues the DeleteObject deletes only a
\* lock object the releasing instance created itself
C33_ReleaseDeletesOnlyOwnLock ==
    [][releaseStep =>
         \A r \in relRes' :
             r.did = "deleted" => \A o \in obj : o.owner = r.by]_vars


(* ----------------------- lock: Acquire without wait returns ------------ *)

\* C34 (violated): an Acquire called with wait=false returns, whatever the
\* store answers to the DeleteObject of a stale lock
C34_NoWaitAcquireReturns ==
    \A w \in Workers : (lpc[w] # "idle" /\ ~lwait[w]) ~> (lpc[w] = "idle")


(* ----------------------- versioning: pin without a lock file ----------- *)

\* C35 (violated): a call with a pinned version that satisfies every
\* constraint, without force-install and system-only, made while no lock
\* file exists, returns a result or an error
C35_PinWithoutLockFileReturns ==
    [][resolveStep =>
         LET o == resolved'.opts
         IN (/\ o.PinnedVersion # {}
             /\ \A v \in o.PinnedVersion : satisfiesAll(v)
             /\ ~o.ForceInstall /\ ~o.UseSystemOnly
             /\ lockFile = {}) =>
                resolved'.kind \in {"result", "error"}]_vars


(* ----------------------- versioning: the resolved version -------------- *)

\* C36: a call without system-only that returns a result returns a version
\* that the constraint of every stack admits, whichever way it was found
\* (lock reuse, system binary, cache or install)
C36_ResolvedVersionSatisfiesAll ==
    [][resolveStep =>
         ((resolved'.kind = "result" /\ ~resolved'.opts.UseSystemOnly) =>
              /\ resolved'.version # {}
              /\ \A v \in resolved'.version : satisfiesAll(v))]_vars

\* C36 witness: a forced install, made while the lock file names a version
\* that stack a does not admit, installed another version
C36_Witness ==
    /\ resolves = 1
    /\ resolved.kind = "result" /\ resolved.source = "installed"
    /\ resolved.opts.ForceInstall /\ resolved.opts.PinnedVersion = {}
    /\ \E v \in lockedVersion : ~satisfiesAll(v) /\ v \notin resolved.version


(* ----------------------- superplan: prefixes and collisions ------------ *)

\* names of resources, modules and outputs a stack can declare: those of
\* BlockNames and one that begins with the prefix of the stacks named p
DeclaredNames == BlockNames \cup {<<"p", "_", "n">>}

\* the name Run gives to name n of the stack in directory d
rewrittenName(d, n) == prefixSegment(prefixOf(d), n)

\* C37 (violated): over the stacks of one superplan run, distinct stacks
\* have distinct prefixes and two distinct pairs of stack and name are never
\* rewritten to the same name
C37_RewriteIsCollisionFree ==
    /\ \A d1, d2 \in smStacks : d1 # d2 => prefixOf(d1) # prefixOf(d2)
    /\ \A d1, d2 \in smStacks : \A n1, n2 \in DeclaredNames :
          <<d1, n1>> # <<d2, n2>> => rewrittenName(d1, n1) # rewrittenName(d2, n2)


(* ----------------------- cache: PlanStack and plan-all ----------------- *)

\* C38 (violated): for a stack without dependencies whose inputs do not
\* change, the fingerprint plan-all computes is the one PlanStack computes,
\* and a PlanStack that follows a plan-all which planned the stack or found
\* it cached, with caching on and the stack not forced, reports cached
C38_PlanStackHitsPlanAllEntry ==
    [][\A s \in Stacks :
         (/\ planSingleStep(s)
          /\ Dependencies(s) = <<>>
          /\ s \in okDone
          /\ options.UseCache /\ ~IsForced(s)) =>
             /\ fingerprintAll(s) = fingerprintSingle(s)
             /\ single'.status = "cached"]_vars


(* ----------------------- executor: progress states --------------------- *)

TerminalStates == {"succeeded", "failed", "skipped"}

\* the moves of a progress state: forward along pending, waiting, running
\* and a terminal state
forward(a, b) ==
    \/ a = "pending" /\ b \in {"waiting", "running"}
    \/ a = "waiting" /\ b = "running"
    \/ a = "running" /\ b \in TerminalStates

\* this step is a pass of RunAll through notifyWaiting that sends stack s a
\* waiting event
waitingEvent(s) ==
    /\ rpc = "loop" /\ rpc' # "loop"
    /\ Cardinality(processed) < Cardinality(DOMAIN graph)
    /\ s \in notifyWaiting

\* C39: during RunAll the progress state of a stack changes only forward
\* along pending, waiting, running, terminal; a waiting event goes to a
\* pending stack that had none before, a stack is started only from pending
\* or waiting, and a terminal state is never left
C39_ProgressMovesForward ==
    [][\A s \in Stacks :
         /\ progress'[s] # progress[s] => forward(progress[s], progress'[s])
         /\ waitingEvent(s) =>
               (s \notin waitingNotified /\ progress[s] = "pending"
                   /\ progress'[s] = "waiting" /\ s \in waitingNotified')
         /\ progress[s] \in TerminalStates => progress'[s] = progress[s]]_vars

\* C39 witness: a stack that was sent a waiting event was later started and
\* succeeded, and another one failed
C39_Witness ==
    \E s, t \in Stacks :
        /\ s \in waitingNotified /\ progress[s] = "succeeded"
        /\ progress[t] = "failed"


(* ----------------------- executor: cycles and missing keys ------------- *)

RECURSIVE resolvable(_)
\* the stacks whose dependencies lead, in at most k steps, only to stacks of
\* the graph without dependencies
resolvable(k) ==
    IF k = 0 THEN {}
    ELSE LET before == resolvable(k - 1)
         IN {s \in Stacks : SeqToSet(Dependencies(s)) \subseteq before}

\* the stacks on a cycle, with a dependency that is not a key, or depending
\* directly or transitively on such a stack
unresolvable == Stacks \ resolvable(NStacks)

neverRun(s) == calls[s] = <<>> /\ progress[s] \in {"pending", "waiting"}

\* C40 as stated: on a graph with a cycle or a dependency that is not a key,
\* RunAll returns "dependency cycle detected" and runs no stack that is on
\* the cycle, has the missing dependency or depends on such a stack
C40_BrokenGraphReturnsCycleError ==
    unresolvable # {} =>
        /\ \A s \in unresolvable : neverRun(s)
        /\ rpc = "done" => retErr = "cycle"

\* C40 amended: RunAll runs none of these stacks and, when it returns,
\* returns an error, never nil: "dependency cycle detected", or the error of
\* a stack operation that failed before the empty layer was reached
C40_BrokenGraphReturnsAnError ==
    unresolvable # {} =>
        /\ \A s \in unresolvable : neverRun(s)
        /\ rpc = "done" =>
              \/ retErr = "cycle" /\ failedStacks = {}
              \/ /\ retErr = "worker"
                 /\ failedStacks # {}
                 /\ failedStacks \cap unresolvable = {}

\* C40 witness: stack 1 depends on a path that is not a key; RunAll ran the
\* stacks that do not depend on it and returned the cycle error
C40_Witness ==
    /\ SeqToSet(Dependencies(1)) = NotKeys
    /\ rpc = "done" /\ retErr = "cycle"
    /\ okDone # {}
    /\ neverRun(1)

====
